---- MODULE Spec2Model ----
(***************************************************************************)
(* State-machine model of the portfolio page's interactivity layer:        *)
(*   - FormManager      (contact form validation and simulated submission) *)
(*   - AnimationManager (fade-in visibility, parallax, scroll throttling)  *)
(*   - PerformanceManager, NavigationManager and PortfolioApp's debounced  *)
(*     scroll and resize listeners (progress bar, active section)          *)
(*   - ThemeManager     (theme toggle and its persisted preference)        *)
(* Browser events, timers and animation frames are the actions; every      *)
(* handler runs to completion (single UI thread), so a handler is one      *)
(* action.  Text is modelled as sequences of characters over a small       *)
(* alphabet; pixel and speed quantities are exact rationals scaled by      *)
(* Scale (IEEE rounding of the products is not modelled).                  *)
(***************************************************************************)
EXTENDS Integers, Sequences, FiniteSets, TLC

(***************************************************************************)
(* Bounds of the model.                                                    *)
(***************************************************************************)
\* longest value typed into an input in the validation specification
MaxLen == 5
\* cap on simultaneously pending simulated-submission timers
MaxPending == 2
\* cap on simultaneously pending 2 s button-reset timers
MaxResetTimers == 1
\* cap on simultaneously displayed failure notifications
MaxNotifications == 1
\* longest data-speed attribute in the parallax specification
MaxAttrLen == 3
\* cap on simultaneously pending animation-frame callbacks
MaxFrames == 2

(***************************************************************************)
(* Text.                                                                   *)
(***************************************************************************)
\* "a" stands for any character that is neither whitespace, '@' nor '.'
Alphabet == {"a", "@", ".", " "}

IsSpace(c) == c = " "

Strings(n) == UNION {[1..k -> Alphabet] : k \in 0..n}

RECURSIVE TrimLeft(_)
TrimLeft(s) == IF s # <<>> /\ IsSpace(Head(s)) THEN TrimLeft(Tail(s)) ELSE s

RECURSIVE TrimRight(_)
TrimRight(s) ==
    IF s # <<>> /\ IsSpace(s[Len(s)])
    THEN TrimRight(SubSeq(s, 1, Len(s) - 1))
    ELSE s

\* String.prototype.trim
trim(s) == TrimRight(TrimLeft(s))

\* the character class [^\s@]
NotSpaceAt(c) == ~IsSpace(c) /\ c # "@"

(***************************************************************************)
(* /^[^\s@]+@[^\s@]+\.[^\s@]+$/ run as an automaton over the value.        *)
(*   0 start            1 inside local part    2 just after '@'            *)
(*   3 inside domain    4 just after the dot   5 inside tld (accepting)    *)
(***************************************************************************)
EmailStep(q, c) ==
    CASE q = 0 -> IF NotSpaceAt(c) THEN {1} ELSE {}
      [] q = 1 -> IF NotSpaceAt(c) THEN {1} ELSE IF c = "@" THEN {2} ELSE {}
      [] q = 2 -> IF NotSpaceAt(c) THEN {3} ELSE {}
      [] q = 3 -> IF c = "." THEN {3, 4} ELSE IF NotSpaceAt(c) THEN {3} ELSE {}
      [] q = 4 -> IF NotSpaceAt(c) THEN {5} ELSE {}
      [] q = 5 -> IF NotSpaceAt(c) THEN {5} ELSE {}

RECURSIVE EmailRun(_, _)
EmailRun(Q, s) ==
    IF s = <<>> THEN Q
    ELSE EmailRun(UNION {EmailStep(q, Head(s)) : q \in Q}, Tail(s))

MutEmailRegexNoDot(s) == 3 \in EmailRun({0}, s) \/ 5 \in EmailRun({0}, s)

\* emailRegex.test(value)
emailRegexTest(s) == 5 \in EmailRun({0}, s)

(***************************************************************************)
(* FormManager.                                                            *)
(*                                                                         *)
(* The page (markup) is configuration chosen in Init: whether #contactForm,*)
(* #submitBtn and its .button-text child exist, and for every              *)
(* .form-input / .form-textarea element its type, its required attribute   *)
(* and its parent node.  The inline style of the inputs (transform,        *)
(* borderColor) is written by the handlers and never read; it is not part  *)
(* of the state, so the focus event, which only writes it, has no action.  *)
(***************************************************************************)
Inputs == {1, 2}
Parents == Inputs
\* document order of the inputs, as querySelectorAll returns them
AllInputs == <<1, 2>>
InputTypes == {"text", "email"}
\* values the user types in the form specification
FormValues == {<<>>, <<"a", "@", "a">>, <<" ", "a", "@", "a", ".", "a">>}
\* the value form.reset() restores (no value attribute in the markup)
DefaultValue == <<>>

\* value of the history variable before any direct validateInput call
NoCall == [input |-> 0, ok |-> FALSE]

MsgRequired == "This field is required"
MsgEmail == "Please enter a valid email address"

VARIABLES
    page,           \* [form, button, buttonText]: which elements exist
    inType,         \* input -> its type attribute
    inRequired,     \* input -> hasAttribute('required')
    inParent,       \* input -> its parentNode
    value,          \* input -> input.value
    errClass,       \* input -> classList.contains('error')
    errors,         \* parent -> its .input-error children in document order
    contactForm,    \* this.contactForm is non-null
    submitButton,   \* this.submitButton is non-null
    formInputs,     \* this.formInputs, in order
    isSubmitting,   \* this.isSubmitting
    button,         \* the submit button: [text, disabled, background]
    submitTimers,   \* pending setTimeout(resolve, 1500) of submitForm
    resetTimers,    \* pending 2 s timers of showSuccessMessage
    notifications,  \* .form-notification elements (each with its 5 s timer)
    outcome,        \* history: how the last completed submission ended
    returned        \* history: what the last direct validateInput call returned

formCfg == <<page, inType, inRequired, inParent>>
formRefs == <<contactForm, submitButton, formInputs>>
formDom == <<value, errClass, errors>>
formRun == <<isSubmitting, button, submitTimers, resetTimers, notifications, outcome,
             returned>>
formVars == <<formCfg, formRefs, formDom, formRun>>

(***************************************************************************)
(* Numbers.  A speed, a translation or a rotation is an exact decimal      *)
(* held as an integer count of 1/Scale units.                              *)
(***************************************************************************)
RECURSIVE Pow10(_)
Pow10(n) == IF n = 0 THEN 1 ELSE 10 * Pow10(n - 1)

Scale == Pow10(MaxAttrLen)

\* the number 0.1 (default speed, rotation per pixel), in tenths
Tenth == 1

Digits == {"0", "1", "5"}
\* "x" stands for any character that cannot occur in a decimal literal
SpeedAlphabet == Digits \cup {".", "-", "x"}
SpeedTexts(n) == UNION {[1..k -> SpeedAlphabet] : k \in 0..n}

DigitVal(c) == CASE c = "0" -> 0 [] c = "1" -> 1 [] c = "5" -> 5

\* how many digits s has from position k on
RECURSIVE DigitRun(_, _)
DigitRun(s, k) ==
    IF k <= Len(s) /\ s[k] \in Digits THEN 1 + DigitRun(s, k + 1) ELSE 0

\* the integer written by the n digits of s that start at position k
RECURSIVE IntOf(_, _, _)
IntOf(s, k, n) ==
    IF n = 0 THEN 0 ELSE 10 * IntOf(s, k, n - 1) + DigitVal(s[k + n - 1])

NaN == [nan |-> TRUE, val |-> 0]

\* parseFloat(text): the longest decimal literal at the start of the text
\* (sign, digits, '.', digits); NaN when there is none
parseFloat(s) ==
    LET neg == s # <<>> /\ s[1] = "-"
        start == IF neg THEN 2 ELSE 1
        n1 == DigitRun(s, start)
        dot == start + n1
        hasDot == dot <= Len(s) /\ s[dot] = "."
        n2 == IF hasDot THEN DigitRun(s, dot + 1) ELSE 0
        mag == IntOf(s, start, n1) * Scale
                + (IntOf(s, dot + 1, n2) * Scale) \div Pow10(n2)
    IN  IF n1 = 0 /\ n2 = 0 THEN NaN
        ELSE [nan |-> FALSE, val |-> IF neg THEN 0 - mag ELSE mag]

\* String(0.1), what assigning the number 0.1 to dataset.speed stores
DefaultSpeedText == <<"0", ".", "1">>

NoAttr == [present |-> FALSE, text |-> <<>>]
Attr(t) == [present |-> TRUE, text |-> t]

(***************************************************************************)
(* AnimationManager: state.                                                *)
(*                                                                         *)
(* The page is configuration chosen in Init: the document position of      *)
(* every .fade-in element and the data-speed attribute of every            *)
(* .floating-element.  The fade-in elements of the model are not skill     *)
(* cards, and there is no .hero-subtitle and no .project-card.             *)
(***************************************************************************)
Fades == {1, 2}
Floats == {1, 2}
\* document order, as querySelectorAll returns them
AllFades == <<1, 2>>
AllFloats == <<1, 2>>
\* window.innerHeight, window.scrollY and element positions, in pixels
Heights == {600, 1000}
ScrollPositions == {0, 300, 900}
Tops == {800, 1400}
fadeHeight == [e \in Fades |-> 200]
\* data-speed attributes of the animation specification
SpeedChoices == {NoAttr, Attr(<<"0">>), Attr(<<"0", ".", "5">>), Attr(<<"x">>)}
\* threshold: 0.1 of the IntersectionObserver, in tenths
ThresholdTenths == 1
\* rootMargin: '0px 0px -100px 0px'
RootMarginBottom == 100
\* rect.top < window.innerHeight * 0.8, in tenths
VisibleTenths == 8

VARIABLES
    innerHeight,        \* window.innerHeight
    scrollY,            \* window.scrollY
    docTop,             \* fade element -> top of its box in the document
    markupSpeed,        \* floating element -> data-speed in the markup
    datasetSpeed,       \* floating element -> element.dataset.speed
    transform,          \* floating element -> style.transform
    visible,            \* fade element -> classList.contains('visible')
    fadeElements,       \* this.fadeElements, in order
    floatingElements,   \* this.floatingElements, in order
    observer,           \* this.observer is non-null
    observed,           \* the elements the IntersectionObserver observes
    isAnimating,        \* this.isAnimating
    frames,             \* pending requestAnimationFrame callbacks
    marked,             \* history: fade element -> times the scroll check added 'visible'
    scrollCalls,        \* history: parity of the handleScroll calls so far
    fadeClass,          \* fade element -> classList.contains('fade-in')
    fadeListKind,       \* what this.fadeElements is: "NodeList" or "Array"
    animThrew           \* history: an AnimationManager call ended in an exception

animCfg == <<docTop, markupSpeed>>
animWin == <<innerHeight, scrollY>>
animRefs == <<fadeElements, floatingElements, observer>>
animApi == <<fadeClass, fadeListKind, animThrew>>
animVars == <<animCfg, animWin, animRefs, datasetSpeed, transform, visible, observed,
              isAnimating, frames, marked, scrollCalls, animApi>>

(***************************************************************************)
(* The page as a whole: PerformanceManager's progress bar,                 *)
(* NavigationManager's active section, and PortfolioApp's debounced scroll *)
(* and resize listeners.                                                   *)
(*                                                                         *)
(* A percentage is an exact fraction num/den in lowest terms (IEEE         *)
(* rounding of the quotient is not modelled), or one of the non-finite     *)
(* results of a division by zero.                                          *)
(***************************************************************************)
\* document.body.scrollHeight and window.scrollY of the page specification
ScrollHeights == {600, 1000, 2000}
PageScrolls == {0, 300, 500, 1000}
\* this.sections of NavigationManager, in order
Sections == <<"home", "about", "skills", "projects", "contact">>
\* the section elements a page of the model can have, with offsetTop and
\* offsetHeight
PageSections == {"home", "about"}
offsetTop == [s \in PageSections |-> IF s = "home" THEN 0 ELSE 1000]
offsetHeight == [s \in PageSections |-> 1000]
\* window.scrollY + 100 in updateActiveSection
SectionLead == 100

\* style.width before any script wrote it
NoWidth == [kind |-> "stylesheet", num |-> 0, den |-> 1]

VARIABLES
    hasProgress,        \* the page has an element with id 'progress'
    scrollHeight,       \* document.body.scrollHeight
    sectionsOnPage,     \* the ids of this.sections that are elements of the page
    progressBar,        \* this.progressBar is non-null
    barWidth,           \* progressBar.style.width
    currentSection,     \* NavigationManager.currentSection
    activeLinks,        \* the data-section of the nav links carrying 'active'
    navScrolling,       \* NavigationManager.isScrolling
    navTimers,          \* the pending 1000 ms timers of scrollToSection
    scrollTimers,       \* the pending 16 ms timers of the debounced scroll listener,
                        \* oldest first: whether a scroll event came after its start
    runLog,             \* history: the module updates of the last run of the listener
    burst,              \* history: the scroll events since that run, up to MaxBurst
    resizePending,      \* the 250 ms timer of the debounced resize listener is pending
    pageThrew           \* history: a scroll or resize listener ended in an exception

pageCfg == <<hasProgress, scrollHeight, sectionsOnPage>>
navVars == <<currentSection, activeLinks, navScrolling, navTimers>>
scrollHist == <<runLog, burst>>
pageVars == <<pageCfg, progressBar, barWidth, navVars, scrollTimers, scrollHist,
              resizePending, pageThrew>>
\* a timer of the debounced scroll listener is pending
scrollPending == scrollTimers # <<>>
\* the timers the model lets be pending at once
MaxTimers == 2
MaxNavTimers == 2
MaxBurst == 2
\* the data-section of the .nav-link elements
NavLinks == {"home", "about", "skills", "projects", "contact"}
\* the arguments of scrollToSection
SectionIds == {"home", "about", "skills"}
\* the calls of the scroll listener, in order
RunOrder == <<"updateProgressBar", "handleScroll", "updateActiveSection">>

(***************************************************************************)
(* ThemeManager and the durable store (localStorage).                      *)
(*                                                                         *)
(* The store is a function from the keys it holds to their strings.  The   *)
(* palette is the set of custom properties the manager wrote inline on the *)
(* root element: "stylesheet" (none written yet), "dark" or "light".  The  *)
(* easter eggs are not part of this state.                                 *)
(***************************************************************************)
ThemeKey == "portfolio-theme"
EmptyStore == [k \in {} |-> ""]
\* localStorage.getItem: null, or the string stored
Null == [present |-> FALSE, text |-> ""]
Item(t) == [present |-> TRUE, text |-> t]
\* what the store can hold under the key when the page loads
SavedAtLoad == {Null, Item("dark"), Item("light"), Item("blue"), Item("")}
\* arguments of setTheme
ThemeNames == {"dark", "light", "Dark", "blue", ""}
\* e.key of the keydown events
Keys == {"d", "D", "x"}
\* how the store behaves: it works; every access throws (SecurityError,
\* storage blocked); reads work and writes throw (QuotaExceededError)
StoreModes == {"ok", "blocked", "full"}
NoThemeCall == [op |-> "none", arg |-> "", ctrl |-> FALSE]

VARIABLES
    storeMode,      \* environment: one of StoreModes
    store,          \* localStorage
    hasNav,         \* the page has a .nav element
    themePhase,     \* "new", "ready" (constructed), "failed" (constructor threw)
    themeListening, \* the keydown listener of setupThemeToggle is attached
    toggleButton,   \* the .theme-toggle button is in the page, with its click listener
    toggleIcon,     \* innerHTML of the .theme-toggle button
    isDarkTheme,    \* this.isDarkTheme
    palette,        \* the palette written inline on the root element
    themeDestroyed, \* history: destroy() has run
    themeThrew,     \* history: a ThemeManager call ended in an exception
    storeAtLoad,    \* history: the store when the manager was constructed
    themeCall,      \* history: the last ThemeManager operation and its argument
    toggleHist      \* history: the states before the toggles of the current run of toggles

themeEnv == <<storeMode, hasNav>>
themeDom == <<themeListening, toggleButton, toggleIcon, palette>>
themeHist == <<themeDestroyed, themeThrew, storeAtLoad, themeCall, toggleHist>>
themeVars == <<themeEnv, store, themePhase, isDarkTheme, themeDom, themeHist>>

\* what the handlers of one module leave alone: the state of the others
(***************************************************************************)
(* The typewriter of AnimationManager.initTypewriterEffect.  A text is the *)
(* sequence of its characters.                                             *)
(***************************************************************************)
texts ==
    << <<"C", "r", "e", "a", "t", "i", "v", "e", " ", "D", "e", "v", "e", "l", "o", "p", "e", "r">>,
       <<"D", "i", "g", "i", "t", "a", "l", " ", "A", "r", "t", "i", "s", "t">>,
       <<"U", "I", "/", "U", "X", " ", "D", "e", "s", "i", "g", "n", "e", "r">>,
       <<"P", "r", "o", "b", "l", "e", "m", " ", "S", "o", "l", "v", "e", "r">> >>
\* the subtitle's text in the markup
OriginalText == <<"H", "i">>

VARIABLES
    hasSubtitle,        \* the page has a .hero-subtitle element
    textIndex,          \* textIndex of the closure (0-based)
    charIndex,          \* charIndex of the closure
    isDeleting,         \* isDeleting of the closure
    subtitleText,       \* subtitle.textContent
    typeStarted         \* history: type() has run

typeVars == <<hasSubtitle, textIndex, charIndex, isDeleting, subtitleText, typeStarted>>

(***************************************************************************)
(* The easter eggs of ThemeManager: the Konami code listener, rainbow mode *)
(* and matrix mode.  Glitch mode only sets an inline animation on the text *)
(* elements and is not part of this state.                                 *)
(***************************************************************************)
KonamiSequence == <<38, 38, 40, 40, 37, 39, 37, 39, 66, 65>>
\* e.keyCode of the keydown events: the arrows, B, A and Enter
KeyCodes == {37, 38, 39, 40, 65, 66, 13}
EggNames == {"rainbow", "matrix"}
\* an entry of the window of recent keys before ten keys were pressed
NoKey == 0
MaxKeyCount == 11
MaxEggTimers == 1
MaxMatrix == 2

VARIABLES
    konamiCode,         \* this.konamiCode
    eggsRegistered,     \* this.easterEggs holds the three modes
    rainbow,            \* document.body.style.animation is the rainbow animation
    rainbowTimers,      \* the pending 10 s timers of triggerKonamiEasterEgg
    matrixCanvases,     \* the #matrix-canvas elements in the page
    matrixIntervals,    \* the scheduled setInterval(draw, 35) timers
    recentKeys,         \* history: the last ten key codes pressed, oldest first
    keyCount,           \* history: the keys pressed so far, up to MaxKeyCount
    konamiFired,        \* history: the last keydown called triggerKonamiEasterEgg
    lastEggOp           \* history: the last operation on matrix mode

eggHist == <<recentKeys, keyCount, konamiFired, lastEggOp>>
eggVars == <<konamiCode, eggsRegistered, rainbow, rainbowTimers, matrixCanvases,
             matrixIntervals, eggHist>>

(***************************************************************************)
(* PerformanceManager's pausing of the CSS animations while the page is    *)
(* hidden.                                                                 *)
(***************************************************************************)
Elements == {1, 2, 3}

VARIABLES
    hasAnimation,       \* element -> its computed animationName is not 'none'
    playState,          \* element -> its inline animationPlayState
    playStateProperty,  \* --animation-play-state on the body
    docHidden,          \* document.hidden
    isAnimationsPaused  \* PerformanceManager.isAnimationsPaused

perfVars == <<hasAnimation, playState, playStateProperty, docHidden, isAnimationsPaused>>

outsideForm == <<animVars, pageVars, themeVars, typeVars, eggVars, perfVars>>
outsideAnim == <<formVars, pageVars, themeVars, typeVars, eggVars, perfVars>>
\* destroy() of ThemeManager also writes the easter eggs' state
outsideTheme == <<formVars, animVars, pageVars, typeVars, perfVars>>
outsidePage == <<formVars, themeVars, typeVars, eggVars, perfVars>>
outsideType == <<formVars, animVars, pageVars, themeVars, eggVars, perfVars>>
outsidePerf == <<formVars, animVars, pageVars, themeVars, typeVars, eggVars>>

(***************************************************************************)
(* FormManager: helpers and handlers.                                      *)
(***************************************************************************)
\* the part of the document the error helpers change
Dom == [cls |-> errClass, errs |-> errors]

MutClearKeepsMessage(d, i) ==
    [cls |-> [d.cls EXCEPT ![i] = FALSE], errs |-> d.errs]

\* clearInputError(input): the first .input-error under the input's parent goes
clearInputError(d, i) ==
    [cls |-> [d.cls EXCEPT ![i] = FALSE],
     errs |-> [d.errs EXCEPT ![inParent[i]] = IF @ = <<>> THEN @ ELSE Tail(@)]]

\* showInputError(input, message); owner is a history field of the new element
showInputError(d, i, m) ==
    LET c == clearInputError(d, i) IN
    [cls |-> [c.cls EXCEPT ![i] = TRUE],
     errs |-> [c.errs EXCEPT ![inParent[i]] = Append(@, [owner |-> i, msg |-> m])]]

\* validateInput(input) on value v: the document afterwards and the result
validateInputOn(d, i, v) ==
    LET t == trim(v)
        c == clearInputError(d, i)
    IN  IF inRequired[i] /\ t = <<>>
        THEN [dom |-> showInputError(c, i, MsgRequired), ok |-> FALSE]
        ELSE IF inType[i] = "email" /\ t # <<>> /\ ~emailRegexTest(t)
        THEN [dom |-> showInputError(c, i, MsgEmail), ok |-> FALSE]
        ELSE [dom |-> c, ok |-> TRUE]

validateInput(d, i) == validateInputOn(d, i, value[i])

\* validateForm(): forEach over this.formInputs, no short circuit
RECURSIVE validateForm(_, _)
validateForm(d, list) ==
    IF list = <<>> THEN [dom |-> d, ok |-> TRUE]
    ELSE LET r == validateInput(d, Head(list))
             rest == validateForm(r.dom, Tail(list))
         IN  [dom |-> rest.dom, ok |-> r.ok /\ rest.ok]

\* updateSubmitButton(text, disabled) applied to button state b
updateSubmitButton(b, text, disabled) ==
    IF submitButton
    THEN [text |-> IF page.buttonText THEN text ELSE b.text,
          disabled |-> disabled,
          background |-> IF disabled THEN "grey" ELSE "accent"]
    ELSE b

\* resetForm()'s forEach: clearInputError on every tracked input
RECURSIVE clearAll(_, _)
clearAll(d, list) ==
    IF list = <<>> THEN d ELSE clearAll(clearInputError(d, Head(list)), Tail(list))

PageConfigs ==
    {c \in [form : BOOLEAN, button : BOOLEAN, buttonText : BOOLEAN] :
        /\ c.buttonText => c.button
        /\ ~c.form => ~c.button}

\* parent nodes up to renaming: input i sits under parent i or under an earlier one
Layouts == {f \in [Inputs -> Parents] : \A i \in Inputs : f[i] <= i /\ f[f[i]] = f[i]}

FormInit ==
    /\ page \in PageConfigs
    /\ inType \in [Inputs -> InputTypes]
    /\ inRequired \in [Inputs -> BOOLEAN]
    /\ inParent \in Layouts
    /\ value = [i \in Inputs |-> DefaultValue]
    /\ errClass = [i \in Inputs |-> FALSE]
    /\ errors = [p \in Parents |-> <<>>]
    /\ contactForm = page.form
    /\ submitButton = page.button
    /\ formInputs = AllInputs
    /\ isSubmitting = FALSE
    /\ button = [text |-> "markup", disabled |-> FALSE, background |-> "stylesheet"]
    /\ submitTimers = 0
    /\ resetTimers = 0
    /\ notifications = 0
    /\ outcome = "none"
    /\ returned = NoCall

\* the user edits input i: the value changes and the input listener runs
InputEvent(i, v) ==
    /\ v # value[i]
    /\ value' = [value EXCEPT ![i] = v]
    /\ IF page.form
       THEN LET d == clearInputError(Dom, i) IN errClass' = d.cls /\ errors' = d.errs
       ELSE UNCHANGED <<errClass, errors>>
    /\ UNCHANGED <<formCfg, formRefs, formRun>>
    /\ UNCHANGED outsideForm

\* blur listener of input i: animateInput(input, 'blur'); validateInput(input)
Blur(i) ==
    /\ page.form
    /\ LET r == validateInput(Dom, i) IN errClass' = r.dom.cls /\ errors' = r.dom.errs
    /\ UNCHANGED <<formCfg, formRefs, value, formRun>>
    /\ UNCHANGED outsideForm

MutHandleNoGuard ==
    /\ page.form
    /\ LET r == validateForm(Dom, formInputs) IN
        /\ errClass' = r.dom.cls
        /\ errors' = r.dom.errs
        /\ IF r.ok
           THEN /\ submitTimers < MaxPending
                /\ isSubmitting' = TRUE
                /\ button' = updateSubmitButton(button, "Sending...", TRUE)
                /\ submitTimers' = submitTimers + 1
           ELSE UNCHANGED <<isSubmitting, button, submitTimers>>
    /\ UNCHANGED <<formCfg, formRefs, value, resetTimers, notifications, outcome,
                   returned>>
    /\ UNCHANGED outsideForm

MutHandleNoValidation ==
    /\ page.form
    /\ IF isSubmitting
       THEN UNCHANGED <<errClass, errors, isSubmitting, button, submitTimers>>
       ELSE /\ UNCHANGED <<errClass, errors>>
            /\ submitTimers < MaxPending
            /\ isSubmitting' = TRUE
            /\ button' = updateSubmitButton(button, "Sending...", TRUE)
            /\ submitTimers' = submitTimers + 1
    /\ UNCHANGED <<formCfg, formRefs, value, resetTimers, notifications, outcome,
                   returned>>
    /\ UNCHANGED outsideForm

\* submit listener: handleFormSubmission() up to its await
handleFormSubmission ==
    /\ page.form
    /\ IF isSubmitting
       THEN UNCHANGED <<errClass, errors, isSubmitting, button, submitTimers>>
       ELSE LET r == validateForm(Dom, formInputs) IN
            /\ errClass' = r.dom.cls
            /\ errors' = r.dom.errs
            /\ IF r.ok
               THEN /\ submitTimers < MaxPending
                    /\ isSubmitting' = TRUE
                    /\ button' = updateSubmitButton(button, "Sending...", TRUE)
                    /\ submitTimers' = submitTimers + 1
               ELSE UNCHANGED <<isSubmitting, button, submitTimers>>
    /\ UNCHANGED <<formCfg, formRefs, value, resetTimers, notifications, outcome,
                   returned>>
    /\ UNCHANGED outsideForm

\* the 1500 ms timer of submitForm fires: handleFormSubmission() resumes after
\* its await and runs try / catch / finally to the end
submitFormResolves ==
    /\ submitTimers > 0
    /\ submitTimers' = submitTimers - 1
    /\ LET sent == updateSubmitButton(button, "Message Sent!", TRUE) IN
       IF ~submitButton
       THEN \* showSuccessMessage: this.submitButton.style throws; catch runs
            /\ notifications < MaxNotifications
            /\ notifications' = notifications + 1
            /\ outcome' = "failure"
            /\ button' = updateSubmitButton(sent, "Send Message", FALSE)
            /\ UNCHANGED <<formDom, resetTimers>>
       ELSE IF ~contactForm
       THEN \* resetForm: this.contactForm.reset() throws; catch runs
            /\ resetTimers < MaxResetTimers
            /\ resetTimers' = resetTimers + 1
            /\ notifications < MaxNotifications
            /\ notifications' = notifications + 1
            /\ outcome' = "failure"
            /\ button' = updateSubmitButton([sent EXCEPT !.background = "green"],
                                            "Send Message", FALSE)
            /\ UNCHANGED formDom
       ELSE \* showSuccessMessage(); resetForm()
            /\ resetTimers < MaxResetTimers
            /\ resetTimers' = resetTimers + 1
            /\ value' = [i \in Inputs |-> DefaultValue]
            /\ LET d == clearAll(Dom, formInputs) IN
                   errClass' = d.cls /\ errors' = d.errs
            /\ outcome' = "success"
            /\ button' = updateSubmitButton([sent EXCEPT !.background = "green"],
                                            "Send Message", FALSE)
            /\ UNCHANGED notifications
    /\ isSubmitting' = FALSE
    /\ UNCHANGED <<formCfg, formRefs, returned>>
    /\ UNCHANGED outsideForm

\* the 2 s timer of showSuccessMessage fires
buttonResetFires ==
    /\ resetTimers > 0
    /\ resetTimers' = resetTimers - 1
    /\ button' = updateSubmitButton(button, "Send Message", FALSE)
    /\ UNCHANGED <<formCfg, formRefs, formDom, isSubmitting, submitTimers,
                   notifications, outcome, returned>>
    /\ UNCHANGED outsideForm

\* the 5 s timer of showErrorMessage fires: notification.remove()
notificationExpires ==
    /\ notifications > 0
    /\ notifications' = notifications - 1
    /\ UNCHANGED <<formCfg, formRefs, formDom, isSubmitting, button, submitTimers,
                   resetTimers, outcome, returned>>
    /\ UNCHANGED outsideForm

\* FormManager.destroy(): removeEventListener is given handlers that were never
\* registered (undefined properties), so every listener stays attached
formDestroy ==
    /\ contactForm' = FALSE
    /\ submitButton' = FALSE
    /\ formInputs' = <<>>
    /\ isSubmitting' = FALSE
    /\ UNCHANGED <<formCfg, formDom, button, submitTimers, resetTimers,
                   notifications, outcome, returned>>
    /\ UNCHANGED outsideForm

\* validateInput(input) called directly; its return value is recorded
validateInputCall(i) ==
    /\ LET r == validateInput(Dom, i) IN
        /\ errClass' = r.dom.cls
        /\ errors' = r.dom.errs
        /\ returned' = [input |-> i, ok |-> r.ok]
    /\ UNCHANGED <<formCfg, formRefs, value, isSubmitting, button, submitTimers,
                   resetTimers, notifications, outcome>>
    /\ UNCHANGED outsideForm

FormNext ==
    \/ \E i \in Inputs, v \in FormValues : InputEvent(i, v)
    \/ \E i \in Inputs : Blur(i)
    \/ handleFormSubmission
    \/ submitFormResolves
    \/ buttonResetFires
    \/ notificationExpires
    \/ formDestroy

\* the values of the spec's examples, letter for letter
ExampleValues == {<<"a", "@", "b", ".", "c", "o">>, <<"a", "@", "b">>, <<>>}

\* validateInput as a function of the value: input 1 holds any short text
ValidateInit ==
    /\ page = [form |-> TRUE, button |-> TRUE, buttonText |-> TRUE]
    /\ inType \in {f \in [Inputs -> InputTypes] : f[2] = "text"}
    /\ inRequired \in {f \in [Inputs -> BOOLEAN] : ~f[2]}
    /\ inParent = [i \in Inputs |-> i]
    /\ value \in {f \in [Inputs -> Strings(MaxLen) \cup ExampleValues] :
                    f[2] = DefaultValue}
    /\ errClass = [i \in Inputs |-> FALSE]
    /\ errors = [p \in Parents |-> <<>>]
    /\ contactForm = TRUE
    /\ submitButton = TRUE
    /\ formInputs = AllInputs
    /\ isSubmitting = FALSE
    /\ button = [text |-> "markup", disabled |-> FALSE, background |-> "stylesheet"]
    /\ submitTimers = 0
    /\ resetTimers = 0
    /\ notifications = 0
    /\ outcome = "none"
    /\ returned = NoCall

ValidateNext == \E i \in Inputs : validateInputCall(i)

(***************************************************************************)
(* AnimationManager: helpers and handlers.                                 *)
(***************************************************************************)
\* style.transform before any script wrote it
NoTransform == [set |-> FALSE, ty |-> 0, rot |-> 0]

Range(seq) == {seq[k] : k \in 1..Len(seq)}

\* element.getBoundingClientRect().top
rectTop(e) == docTop[e] - scrollY

\* entry.isIntersecting as the browser computes it: the part of the box inside
\* the root (the viewport less the bottom margin) is at least the threshold
isIntersecting(e) ==
    LET lo == IF rectTop(e) > 0 THEN rectTop(e) ELSE 0
        bottom == rectTop(e) + fadeHeight[e]
        rootBottom == innerHeight - RootMarginBottom
        hi == IF bottom < rootBottom THEN bottom ELSE rootBottom
    IN  (hi - lo) * 10 >= fadeHeight[e] * ThresholdTenths /\ hi > lo

\* setupFloatingElements: dataset.speed = dataset.speed || 0.1
setupFloatingElements(a) ==
    IF a.present /\ a.text # <<>> THEN a ELSE Attr(DefaultSpeedText)

MutSpeedNoDefault(a) ==
    IF a.present THEN parseFloat(a.text).val ELSE (Tenth * Scale) \div 10

\* parseFloat(element.dataset.speed) || 0.1
speedOf(a) ==
    LET n == IF a.present THEN parseFloat(a.text) ELSE NaN IN
    IF n.nan \/ n.val = 0 THEN (Tenth * Scale) \div 10 ELSE n.val

\* the transform updateParallax writes for dataset.speed a at offset y
parallaxTransform(y, a) ==
    [set |-> TRUE, ty |-> y * speedOf(a), rot |-> (y * Tenth * Scale) \div 10]

\* updateParallax(): the transforms afterwards
updateParallax(t) ==
    [f \in Floats |->
        IF f \in Range(floatingElements)
        THEN parallaxTransform(scrollY, datasetSpeed[f])
        ELSE t[f]]

MutCheckAtOrBelow(e) == rectTop(e) * 10 <= innerHeight * VisibleTenths

\* rect.top < window.innerHeight * 0.8
isVisible(e) == rectTop(e) * 10 < innerHeight * VisibleTenths

\* checkForNewAnimations(): the elements it adds 'visible' to
checkForNewAnimations ==
    {e \in Range(fadeElements) : ~visible[e] /\ isVisible(e)}

AnimInit ==
    /\ innerHeight \in Heights
    /\ scrollY = 0
    /\ docTop \in [Fades -> Tops]
    /\ markupSpeed \in [Floats -> SpeedChoices]
    /\ datasetSpeed = [f \in Floats |-> setupFloatingElements(markupSpeed[f])]
    /\ transform = [f \in Floats |-> NoTransform]
    /\ visible = [e \in Fades |-> FALSE]
    /\ fadeElements = AllFades
    /\ floatingElements = AllFloats
    /\ observer = TRUE
    /\ observed = Fades
    /\ isAnimating = FALSE
    /\ frames = 0
    /\ marked = [e \in Fades |-> 0]
    /\ scrollCalls = 0
    /\ fadeClass = [e \in Fades |-> e \in Range(fadeElements)]
    /\ fadeListKind = "NodeList"
    /\ animThrew = FALSE

\* the user scrolls the page
ScrollTo(y) ==
    /\ y # scrollY
    /\ scrollY' = y
    /\ UNCHANGED <<animCfg, animApi, innerHeight, animRefs, datasetSpeed, transform, visible,
                   observed, isAnimating, frames, marked, scrollCalls>>
    /\ UNCHANGED outsideAnim

\* the user resizes the window
Resize(h) ==
    /\ h # innerHeight
    /\ innerHeight' = h
    /\ UNCHANGED <<animCfg, animApi, scrollY, animRefs, datasetSpeed, transform, visible,
                   observed, isAnimating, frames, marked, scrollCalls>>
    /\ UNCHANGED outsideAnim

\* the IntersectionObserver callback with an entry for e
observerCallback(e) ==
    /\ e \in observed
    /\ isIntersecting(e)
    /\ visible' = [visible EXCEPT ![e] = TRUE]
    /\ UNCHANGED <<animCfg, animApi, animWin, animRefs, datasetSpeed, transform, observed,
                   isAnimating, frames, marked, scrollCalls>>
    /\ UNCHANGED outsideAnim

MutHandleScrollNoParallax ==
    /\ scrollCalls' = 1 - scrollCalls
    /\ IF isAnimating
       THEN UNCHANGED <<transform, visible, isAnimating, frames, marked>>
       ELSE /\ frames < MaxFrames
            /\ isAnimating' = TRUE
            /\ UNCHANGED transform
            /\ visible' = [e \in Fades |-> visible[e] \/ e \in checkForNewAnimations]
            /\ marked' = [e \in Fades |->
                            IF e \in checkForNewAnimations THEN marked[e] + 1
                            ELSE marked[e]]
            /\ frames' = frames + 1
    /\ UNCHANGED <<animCfg, animApi, animWin, animRefs, datasetSpeed, observed>>
    /\ UNCHANGED outsideAnim

\* handleScroll(): what it does to the AnimationManager
handleScrollBody ==
    /\ scrollCalls' = 1 - scrollCalls
    /\ IF isAnimating
       THEN UNCHANGED <<transform, visible, isAnimating, frames, marked>>
       ELSE /\ frames < MaxFrames
            /\ isAnimating' = TRUE
            /\ transform' = updateParallax(transform)
            /\ visible' = [e \in Fades |-> visible[e] \/ e \in checkForNewAnimations]
            /\ marked' = [e \in Fades |->
                            IF e \in checkForNewAnimations THEN marked[e] + 1
                            ELSE marked[e]]
            /\ frames' = frames + 1
    /\ UNCHANGED <<animCfg, animApi, animWin, animRefs, datasetSpeed, observed>>

\* handleScroll()
handleScroll ==
    /\ handleScrollBody
    /\ UNCHANGED outsideAnim

\* the requestAnimationFrame callback of handleScroll
frameCallback ==
    /\ frames > 0
    /\ frames' = frames - 1
    /\ isAnimating' = FALSE
    /\ UNCHANGED <<animCfg, animApi, animWin, animRefs, datasetSpeed, transform, visible,
                   observed, marked, scrollCalls>>
    /\ UNCHANGED outsideAnim

\* handleResize(): what it does to the AnimationManager
handleResizeBody ==
    /\ transform' = updateParallax(transform)
    /\ observed' = IF observer THEN observed \cup Range(fadeElements) ELSE observed
    /\ UNCHANGED <<animCfg, animApi, animWin, animRefs, datasetSpeed, visible, isAnimating,
                   frames, marked, scrollCalls>>

\* handleResize()
handleResize ==
    /\ handleResizeBody
    /\ UNCHANGED outsideAnim

MutDestroyClearsVisible ==
    /\ observed' = {}
    /\ fadeElements' = <<>>
    /\ floatingElements' = <<>>
    /\ observer' = FALSE
    /\ fadeListKind' = "Array"
    /\ isAnimating' = FALSE
    /\ visible' = [e \in Fades |-> FALSE]
    /\ UNCHANGED <<animCfg, fadeClass, animThrew, animWin, datasetSpeed, transform, frames, marked,
                   scrollCalls>>
    /\ UNCHANGED outsideAnim

\* AnimationManager.destroy()
animDestroy ==
    /\ observed' = IF observer THEN {} ELSE observed
    /\ fadeElements' = <<>>
    /\ floatingElements' = <<>>
    /\ observer' = FALSE
    /\ fadeListKind' = "Array"
    /\ isAnimating' = FALSE
    /\ UNCHANGED <<animCfg, fadeClass, animThrew, animWin, datasetSpeed, transform, visible, frames, marked,
                   scrollCalls>>
    /\ UNCHANGED outsideAnim

AnimNext ==
    \/ \E y \in ScrollPositions : ScrollTo(y)
    \/ \E h \in Heights : Resize(h)
    \/ \E e \in Fades : observerCallback(e)
    \/ handleScroll
    \/ frameCallback
    \/ handleResize
    \/ animDestroy

\* addFadeInElement(element) for an element of the page
addFadeInElement(e) ==
    /\ IF fadeClass[e]
       THEN UNCHANGED <<fadeClass, fadeElements, observed, animThrew>>
       ELSE /\ fadeClass' = [fadeClass EXCEPT ![e] = TRUE]
            /\ IF fadeListKind = "NodeList"
               THEN \* a NodeList has no push method: TypeError
                    /\ animThrew' = TRUE
                    /\ UNCHANGED <<fadeElements, observed>>
               ELSE /\ fadeElements' = Append(fadeElements, e)
                    /\ IF observer
                       THEN observed' = observed \cup {e} /\ UNCHANGED animThrew
                       ELSE \* this.observer is null: TypeError
                            animThrew' = TRUE /\ UNCHANGED observed
    /\ UNCHANGED <<animCfg, animWin, floatingElements, observer, fadeListKind,
                   datasetSpeed, transform, visible, isAnimating, frames, marked,
                   scrollCalls>>
    /\ UNCHANGED outsideAnim

\* a page where element 2, and maybe element 1, is not a .fade-in element
RegisterInit ==
    /\ innerHeight \in Heights
    /\ scrollY = 0
    /\ docTop \in [Fades -> Tops]
    /\ markupSpeed = [f \in Floats |-> NoAttr]
    /\ datasetSpeed = [f \in Floats |-> setupFloatingElements(markupSpeed[f])]
    /\ transform = [f \in Floats |-> NoTransform]
    /\ visible = [e \in Fades |-> FALSE]
    /\ fadeElements \in {<<>>, <<1>>}
    /\ floatingElements = AllFloats
    /\ observer = TRUE
    /\ observed = Range(fadeElements)
    /\ isAnimating = FALSE
    /\ frames = 0
    /\ marked = [e \in Fades |-> 0]
    /\ scrollCalls = 0
    /\ fadeClass = [e \in Fades |-> e \in Range(fadeElements)]
    /\ fadeListKind = "NodeList"
    /\ animThrew = FALSE

RegisterNext ==
    \/ \E e \in Fades : addFadeInElement(e)
    \/ \E y \in ScrollPositions : ScrollTo(y)
    \/ \E h \in Heights : Resize(h)
    \/ \E e \in Fades : observerCallback(e)
    \/ handleScroll
    \/ frameCallback
    \/ handleResize
    \/ animDestroy

\* updateParallax as a function of the attribute: element 1 has any short text
ParallaxInit ==
    /\ innerHeight = 1000
    /\ scrollY = 0
    /\ docTop = [e \in Fades |-> 800]
    /\ markupSpeed \in {m \in [Floats -> {NoAttr} \cup {Attr(t) : t \in SpeedTexts(MaxAttrLen)}] :
                            m[2] = NoAttr}
    /\ datasetSpeed = [f \in Floats |-> setupFloatingElements(markupSpeed[f])]
    /\ transform = [f \in Floats |-> NoTransform]
    /\ visible = [e \in Fades |-> FALSE]
    /\ fadeElements = AllFades
    /\ floatingElements = AllFloats
    /\ observer = TRUE
    /\ observed = Fades
    /\ isAnimating = FALSE
    /\ frames = 0
    /\ marked = [e \in Fades |-> 0]
    /\ scrollCalls = 0
    /\ fadeClass = [e \in Fades |-> e \in Range(fadeElements)]
    /\ fadeListKind = "NodeList"
    /\ animThrew = FALSE

ParallaxNext ==
    \/ \E y \in ScrollPositions : ScrollTo(y)
    \/ handleResize
    \/ handleScroll
    \/ frameCallback

\* a page without animated elements, for the specifications of other modules
AnimIdle ==
    /\ innerHeight = 1000
    /\ scrollY = 0
    /\ docTop = [e \in Fades |-> 800]
    /\ markupSpeed = [f \in Floats |-> NoAttr]
    /\ datasetSpeed = [f \in Floats |-> NoAttr]
    /\ transform = [f \in Floats |-> NoTransform]
    /\ visible = [e \in Fades |-> FALSE]
    /\ fadeElements = <<>>
    /\ floatingElements = <<>>
    /\ observer = TRUE
    /\ observed = {}
    /\ isAnimating = FALSE
    /\ frames = 0
    /\ marked = [e \in Fades |-> 0]
    /\ scrollCalls = 0
    /\ fadeClass = [e \in Fades |-> e \in Range(fadeElements)]
    /\ fadeListKind = "NodeList"
    /\ animThrew = FALSE

\* a page without a contact form, for the specifications of other modules
FormIdle ==
    /\ page = [form |-> FALSE, button |-> FALSE, buttonText |-> FALSE]
    /\ inType = [i \in Inputs |-> "text"]
    /\ inRequired = [i \in Inputs |-> FALSE]
    /\ inParent = [i \in Inputs |-> i]
    /\ value = [i \in Inputs |-> DefaultValue]
    /\ errClass = [i \in Inputs |-> FALSE]
    /\ errors = [p \in Parents |-> <<>>]
    /\ contactForm = FALSE
    /\ submitButton = FALSE
    /\ formInputs = AllInputs
    /\ isSubmitting = FALSE
    /\ button = [text |-> "markup", disabled |-> FALSE, background |-> "stylesheet"]
    /\ submitTimers = 0
    /\ resetTimers = 0
    /\ notifications = 0
    /\ outcome = "none"
    /\ returned = NoCall

(***************************************************************************)
(* The page: progress bar, active section, debounced listeners.            *)
(***************************************************************************)
RECURSIVE Gcd(_, _)
Gcd(a, b) == IF b = 0 THEN a ELSE Gcd(b, a % b)

Abs(x) == IF x < 0 THEN 0 - x ELSE x

MutPercentOfDocument(top, doc) ==
    LET whole == doc + innerHeight
        g == Gcd(top * 100, whole)
    IN  [kind |-> "number", num |-> (top * 100) \div g, den |-> whole \div g]

\* (scrollTop / docHeight) * 100 as the template literal prints it; top >= 0
scrollPercent(top, doc) ==
    IF doc = 0
    THEN [kind |-> IF top = 0 THEN "NaN" ELSE "Infinity", num |-> 0, den |-> 1]
    ELSE LET g == Gcd(top * 100, Abs(doc)) IN
         [kind |-> "number",
          num |-> IF doc < 0 THEN 0 - ((top * 100) \div g) ELSE (top * 100) \div g,
          den |-> Abs(doc) \div g]

MutUpdateNoGuard(w) ==
    IF ~progressBar
    THEN [width |-> w, threw |-> TRUE]
    ELSE [width |-> scrollPercent(scrollY, scrollHeight - innerHeight), threw |-> FALSE]

\* updateProgressBar() on bar width w: the width afterwards, and whether it threw
updateProgressBar(w) ==
    IF ~progressBar
    THEN [width |-> w, threw |-> FALSE]
    ELSE [width |-> scrollPercent(scrollY, scrollHeight - innerHeight), threw |-> FALSE]

\* clearTimeout(timeout): timeout is the timer started last
clearTimeout(timers) ==
    IF timers = <<>> THEN <<>> ELSE SubSeq(timers, 1, Len(timers) - 1)

MutDebounceNoClear(timers) ==
    Append([i \in DOMAIN timers |-> TRUE], FALSE)

\* executedFunction of debounce(): clearTimeout(timeout); timeout = setTimeout(later, wait)
debounce(timers) ==
    Append([i \in DOMAIN clearTimeout(timers) |-> TRUE], FALSE)

\* the timers left when the oldest fires and later() runs clearTimeout(timeout)
later(timers) == clearTimeout(Tail(timers))

MutSetActiveNoRemove(sectionId) ==
    activeLinks \cup {l \in NavLinks : l = sectionId}

\* setActiveNavLink(sectionId): the links carrying 'active' afterwards
setActiveNavLink(sectionId) ==
    {l \in NavLinks : l = sectionId}

\* the forEach of updateActiveSection() over the rest of this.sections;
\* n is [current, links]: currentSection and the active nav links
RECURSIVE updateActiveSection(_, _)
updateActiveSection(n, list) ==
    IF list = <<>> THEN n
    ELSE LET id == Head(list)
             pos == scrollY + SectionLead
             hit == /\ id \in sectionsOnPage
                    /\ pos >= offsetTop[id]
                    /\ pos < offsetTop[id] + offsetHeight[id]
                    /\ n.current # id
         IN  updateActiveSection(IF hit THEN [current |-> id, links |-> setActiveNavLink(id)]
                                 ELSE n,
                                 Tail(list))

\* the largest scroll offset of a viewport of height h
MaxScroll(h) == IF scrollHeight > h THEN scrollHeight - h ELSE 0

PageInit ==
    /\ hasProgress \in BOOLEAN
    /\ scrollHeight \in ScrollHeights
    /\ sectionsOnPage \in {{}, PageSections}
    /\ sectionsOnPage # {} => scrollHeight = 2000
    /\ progressBar = hasProgress
    /\ barWidth = NoWidth
    /\ currentSection = "home"
    /\ activeLinks = {"home"}
    /\ navScrolling = FALSE
    /\ navTimers = 0
    /\ scrollTimers = <<>>
    /\ runLog = <<>>
    /\ burst = 0
    /\ resizePending = FALSE
    /\ pageThrew = FALSE
    /\ innerHeight \in Heights
    /\ scrollY = 0
    /\ docTop = [e \in Fades |-> IF e = 1 THEN 800 ELSE 1400]
    /\ markupSpeed = [f \in Floats |-> NoAttr]
    /\ fadeElements \in {<<>>, AllFades}
    /\ fadeElements # <<>> => scrollHeight = 2000
    /\ floatingElements \in {<<>>, AllFloats}
    /\ datasetSpeed = [f \in Floats |->
                        IF floatingElements = <<>> THEN NoAttr
                        ELSE setupFloatingElements(markupSpeed[f])]
    /\ transform = [f \in Floats |-> NoTransform]
    /\ visible = [e \in Fades |-> FALSE]
    /\ observer = TRUE
    /\ observed = Range(fadeElements)
    /\ isAnimating = FALSE
    /\ frames = 0
    /\ marked = [e \in Fades |-> 0]
    /\ scrollCalls = 0
    /\ fadeClass = [e \in Fades |-> e \in Range(fadeElements)]
    /\ fadeListKind = "NodeList"
    /\ animThrew = FALSE

\* the user scrolls the page: a scroll event reaches the debounced listener,
\* which (re)starts its timer
scrollEvent(y) ==
    /\ y # scrollY
    /\ y <= MaxScroll(innerHeight)
    /\ scrollY' = y
    /\ Len(debounce(scrollTimers)) <= MaxTimers
    /\ scrollTimers' = debounce(scrollTimers)
    /\ burst' = IF burst < MaxBurst THEN burst + 1 ELSE burst
    /\ UNCHANGED <<animCfg, animApi, innerHeight, animRefs, datasetSpeed, transform, visible,
                   observed, isAnimating, frames, marked, scrollCalls>>
    /\ UNCHANGED <<pageCfg, progressBar, barWidth, navVars, runLog, resizePending,
                   pageThrew>>
    /\ UNCHANGED outsidePage

\* the user resizes the window: a resize event reaches the debounced listener;
\* the browser clamps the scroll offset, and a scroll event follows if it moved
resizeEvent(h) ==
    /\ h # innerHeight
    /\ innerHeight' = h
    /\ scrollY' = IF scrollY > MaxScroll(h) THEN MaxScroll(h) ELSE scrollY
    /\ scrollY > MaxScroll(h) => Len(debounce(scrollTimers)) <= MaxTimers
    /\ scrollTimers' = IF scrollY > MaxScroll(h) THEN debounce(scrollTimers)
                       ELSE scrollTimers
    /\ burst' = IF scrollY > MaxScroll(h) /\ burst < MaxBurst THEN burst + 1 ELSE burst
    /\ resizePending' = TRUE
    /\ UNCHANGED <<animCfg, animApi, animRefs, datasetSpeed, transform, visible, observed,
                   isAnimating, frames, marked, scrollCalls>>
    /\ UNCHANGED <<pageCfg, progressBar, barWidth, navVars, runLog, pageThrew>>
    /\ UNCHANGED outsidePage

\* the timer of the debounced scroll listener fires: updateProgressBar();
\* animations.handleScroll(); navigation.updateActiveSection()
onScroll ==
    /\ scrollPending
    /\ scrollTimers' = later(scrollTimers)
    /\ burst' = 0
    /\ LET r == updateProgressBar(barWidth) IN
        /\ barWidth' = r.width
        /\ IF r.threw
           THEN /\ pageThrew' = TRUE
                /\ runLog' = SubSeq(RunOrder, 1, 1)
                /\ UNCHANGED <<animVars, navVars>>
           ELSE /\ handleScrollBody
                /\ LET n == IF navScrolling
                            THEN [current |-> currentSection, links |-> activeLinks]
                            ELSE updateActiveSection(
                                    [current |-> currentSection, links |-> activeLinks],
                                    Sections)
                   IN  currentSection' = n.current /\ activeLinks' = n.links
                /\ runLog' = RunOrder
                /\ UNCHANGED <<navScrolling, navTimers, pageThrew>>
    /\ UNCHANGED <<pageCfg, progressBar, resizePending>>
    /\ UNCHANGED outsidePage

\* the timer of the debounced resize listener fires: animations.handleResize()
onResize ==
    /\ resizePending
    /\ resizePending' = FALSE
    /\ handleResizeBody
    /\ UNCHANGED <<pageCfg, progressBar, barWidth, navVars, scrollTimers, scrollHist,
                   pageThrew>>
    /\ UNCHANGED outsidePage

\* scrollToSection(sectionId); the smooth scroll it starts arrives as scroll events
scrollToSection(sectionId) ==
    /\ IF sectionId \in sectionsOnPage
       THEN /\ navTimers < MaxNavTimers
            /\ navScrolling' = TRUE
            /\ activeLinks' = setActiveNavLink(sectionId)
            /\ currentSection' = sectionId
            /\ navTimers' = navTimers + 1
       ELSE UNCHANGED navVars
    /\ UNCHANGED <<pageCfg, progressBar, barWidth, scrollTimers, scrollHist, resizePending,
                   pageThrew, animVars>>
    /\ UNCHANGED outsidePage

\* a 1000 ms timer of scrollToSection fires
navTimerFires ==
    /\ navTimers > 0
    /\ navTimers' = navTimers - 1
    /\ navScrolling' = FALSE
    /\ UNCHANGED <<currentSection, activeLinks>>
    /\ UNCHANGED <<pageCfg, progressBar, barWidth, scrollTimers, scrollHist, resizePending,
                   pageThrew, animVars>>
    /\ UNCHANGED outsidePage

\* scrollToTop(); the smooth scroll it starts arrives as scroll events
scrollToTop ==
    /\ activeLinks' = setActiveNavLink("home")
    /\ currentSection' = "home"
    /\ UNCHANGED <<navScrolling, navTimers>>
    /\ UNCHANGED <<pageCfg, progressBar, barWidth, scrollTimers, scrollHist, resizePending,
                   pageThrew, animVars>>
    /\ UNCHANGED outsidePage

\* a page with the sections and without animated elements
NavInit ==
    /\ PageInit
    /\ sectionsOnPage = PageSections
    /\ fadeElements = <<>>
    /\ floatingElements = <<>>

NavNext ==
    \/ \E id \in SectionIds : scrollToSection(id)
    \/ scrollToTop
    \/ navTimerFires
    \/ \E y \in PageScrolls : scrollEvent(y)
    \/ onScroll
    \/ frameCallback

\* a page with the progress bar, the sections and the animated elements
DebounceInit ==
    /\ PageInit
    /\ hasProgress
    /\ sectionsOnPage = PageSections
    /\ fadeElements = AllFades
    /\ floatingElements = AllFloats

\* the scroll listener and what it starts, without resize events
DebounceNext ==
    \/ \E y \in PageScrolls : scrollEvent(y)
    \/ onScroll
    \/ frameCallback
    \/ \E e \in Fades : observerCallback(e)

PageNext ==
    \/ \E y \in PageScrolls : scrollEvent(y)
    \/ \E h \in Heights : resizeEvent(h)
    \/ onScroll
    \/ onResize
    \/ frameCallback
    \/ \E e \in Fades : observerCallback(e)

\* a page without progress bar and sections, for the specifications of other
\* modules
PageIdle ==
    /\ hasProgress = FALSE
    /\ scrollHeight = 2000
    /\ sectionsOnPage = {}
    /\ progressBar = FALSE
    /\ barWidth = NoWidth
    /\ currentSection = "home"
    /\ activeLinks = {"home"}
    /\ navScrolling = FALSE
    /\ navTimers = 0
    /\ scrollTimers = <<>>
    /\ runLog = <<>>
    /\ burst = 0
    /\ resizePending = FALSE
    /\ pageThrew = FALSE

(***************************************************************************)
(* ThemeManager: helpers and handlers.  The operations are functions of a  *)
(* record t = [dark, palette, button, icon, store, threw]: this.isDarkTheme,*)
(* the inline palette, whether the .theme-toggle button is in the page,    *)
(* its innerHTML, localStorage, and whether the call ended in an exception.*)
(***************************************************************************)
\* localStorage.getItem(k)
getItem(st, k) == IF k \in DOMAIN st THEN Item(st[k]) ELSE Null

\* localStorage.setItem(k, v)
setItem(st, k, v) == [x \in DOMAIN st \cup {k} |-> IF x = k THEN v ELSE st[x]]

\* the store that holds item under the theme key and nothing else
StoreOf(item) == IF item.present THEN setItem(EmptyStore, ThemeKey, item.text) ELSE EmptyStore

\* a store with a key some other script of the origin wrote
ForeignStore == setItem(EmptyStore, "other-app", "x")

InitialStores == {StoreOf(item) : item \in SavedAtLoad} \cup {ForeignStore}

\* getCurrentTheme() when this.isDarkTheme is d
getCurrentTheme(d) == IF d THEN "dark" ELSE "light"

ThemeNow ==
    [dark |-> isDarkTheme, palette |-> palette, button |-> toggleButton,
     icon |-> toggleIcon, store |-> store, threw |-> FALSE]

\* applyTheme()
applyTheme(t) ==
    [t EXCEPT !.palette = getCurrentTheme(t.dark),
              !.icon = IF t.button THEN (IF t.dark THEN "moon" ELSE "sun") ELSE @]

MutSaveFlag(t) ==
    IF storeMode = "ok"
    THEN [t EXCEPT !.store = setItem(@, ThemeKey, IF t.dark THEN "true" ELSE "false")]
    ELSE [t EXCEPT !.threw = TRUE]

\* saveThemePreference(): setItem throws when the store does not take writes
saveThemePreference(t) ==
    IF storeMode = "ok"
    THEN [t EXCEPT !.store = setItem(@, ThemeKey, getCurrentTheme(t.dark))]
    ELSE [t EXCEPT !.threw = TRUE]

\* loadThemePreference(): getItem throws when the store is blocked
loadThemePreference(t) ==
    IF storeMode = "blocked" THEN [t EXCEPT !.threw = TRUE]
    ELSE LET savedTheme == getItem(t.store, ThemeKey) IN
         IF savedTheme.present /\ savedTheme.text # ""
         THEN applyTheme([t EXCEPT !.dark = (savedTheme.text = "dark")])
         ELSE t

MutToggleToLight(t) == saveThemePreference(applyTheme([t EXCEPT !.dark = FALSE]))

MutToggleNoSave(t) == applyTheme([t EXCEPT !.dark = ~@])

\* toggleTheme()
toggleTheme(t) == saveThemePreference(applyTheme([t EXCEPT !.dark = ~@]))

MutSetThemeAnyName(t, theme) ==
    saveThemePreference(applyTheme([t EXCEPT !.dark = (theme = "dark")]))

\* setTheme(theme)
setTheme(t, theme) ==
    IF theme = "dark" \/ theme = "light"
    THEN saveThemePreference(applyTheme([t EXCEPT !.dark = (theme = "dark")]))
    ELSE t

\* the observable theme state: current theme, palette in effect (the
\* stylesheet's own palette is the dark one) and persisted value
Snapshot(t) ==
    [theme |-> getCurrentTheme(t.dark),
     palette |-> IF t.palette = "stylesheet" THEN "dark" ELSE t.palette,
     saved |-> getItem(t.store, ThemeKey)]

\* the state left by an operation that ended in t, with its history
themeCommit(t, call, hist) ==
    /\ isDarkTheme' = t.dark
    /\ palette' = t.palette
    /\ toggleIcon' = t.icon
    /\ store' = t.store
    /\ themeThrew' = (themeThrew \/ t.threw)
    /\ themeCall' = call
    /\ toggleHist' = hist

\* the history of a run of toggles, one toggle longer (the last two are kept)
pushToggle ==
    IF Len(toggleHist) = 2
    THEN <<toggleHist[2], Snapshot(ThemeNow)>>
    ELSE Append(toggleHist, Snapshot(ThemeNow))

ThemeInitIn(modes) ==
    /\ storeMode \in modes
    /\ hasNav \in BOOLEAN
    /\ store \in InitialStores
    /\ themePhase = "new"
    /\ themeListening = FALSE
    /\ toggleButton = FALSE
    /\ toggleIcon = "none"
    /\ isDarkTheme = TRUE
    /\ palette = "stylesheet"
    /\ themeDestroyed = FALSE
    /\ themeThrew = FALSE
    /\ storeAtLoad = store
    /\ themeCall = NoThemeCall
    /\ toggleHist = <<>>

\* the decimal digits of a key code
RECURSIVE CodeDigits(_)
CodeDigits(n) ==
    LET digit(d) == <<"0", "1", "2", "3", "4", "5", "6", "7", "8", "9">>[d + 1]
    IN  IF n < 10 THEN <<digit(n)>> ELSE Append(CodeDigits(n \div 10), digit(n % 10))

\* Array.prototype.toString of an array of numbers: the digits of the
\* elements, separated by commas
RECURSIVE toString(_)
toString(a) ==
    IF a = <<>> THEN <<>>
    ELSE IF Len(a) = 1 THEN CodeDigits(a[1])
    ELSE CodeDigits(a[1]) \o <<",">> \o toString(Tail(a))

MutShiftAtTen(code) ==
    IF Len(code) >= Len(KonamiSequence) THEN Tail(code) ELSE code

\* the buffer after the push: shift() when it is longer than the sequence
konamiShift(code) ==
    IF Len(code) > Len(KonamiSequence) THEN Tail(code) ELSE code

\* how far the recent keys have got into the sequence
Progress(w) ==
    LET n == Len(KonamiSequence)
        fits == {k \in 0..n : SubSeq(w, n - k + 1, n) = SubSeq(KonamiSequence, 1, k)}
    IN  CHOOSE k \in fits : \A j \in fits : j <= k

\* the keys the model presses next: the one that continues the sequence, an
\* up arrow, or Enter
NextKeys(w) == {KonamiSequence[(Progress(w) % Len(KonamiSequence)) + 1], 38, 13}

\* deactivateMatrixMode(): getElementById finds the first canvas and removes it
deactivateMatrixMode(canvases) == IF canvases > 0 THEN canvases - 1 ELSE 0

\* new ThemeManager(): constructor and init(); the listeners and the button
\* are in place before loadThemePreference() runs
themeConstruct ==
    /\ themePhase = "new"
    /\ themeListening' = TRUE
    /\ toggleButton' = hasNav
    /\ LET t == loadThemePreference(
                    [ThemeNow EXCEPT !.dark = TRUE, !.button = hasNav,
                                     !.icon = IF hasNav THEN "moon" ELSE @])
       IN  /\ themePhase' = IF t.threw THEN "failed" ELSE "ready"
           /\ themeCommit(t, [op |-> "construct", arg |-> "", ctrl |-> FALSE], <<>>)
    /\ UNCHANGED <<themeEnv, themeDestroyed, storeAtLoad>>
    /\ konamiCode' = <<>>
    /\ eggsRegistered' = TRUE
    /\ UNCHANGED <<rainbow, rainbowTimers, matrixCanvases, matrixIntervals, eggHist>>
    /\ UNCHANGED outsideTheme

\* toggleTheme() called on the manager
toggleThemeCall ==
    /\ themePhase = "ready"
    /\ themeCommit(toggleTheme(ThemeNow), [op |-> "toggleTheme", arg |-> "", ctrl |-> FALSE],
                   pushToggle)
    /\ UNCHANGED <<themeEnv, themePhase, themeListening, toggleButton, themeDestroyed,
                   storeAtLoad>>
    /\ UNCHANGED <<eggVars, outsideTheme>>

\* setTheme(theme) called on the manager
setThemeCall(theme) ==
    /\ themePhase = "ready"
    /\ themeCommit(setTheme(ThemeNow, theme),
                   [op |-> "setTheme", arg |-> theme, ctrl |-> FALSE], <<>>)
    /\ UNCHANGED <<themeEnv, themePhase, themeListening, toggleButton, themeDestroyed,
                   storeAtLoad>>
    /\ UNCHANGED <<eggVars, outsideTheme>>

\* the keydown listener of setupThemeToggle
keydown(ctrlKey, key) ==
    /\ themeListening
    /\ IF ctrlKey /\ key = "d"
       THEN themeCommit(toggleTheme(ThemeNow),
                        [op |-> "keydown", arg |-> key, ctrl |-> ctrlKey], pushToggle)
       ELSE themeCommit(ThemeNow, [op |-> "keydown", arg |-> key, ctrl |-> ctrlKey], <<>>)
    /\ UNCHANGED <<themeEnv, themePhase, themeListening, toggleButton, themeDestroyed,
                   storeAtLoad>>
    /\ UNCHANGED <<eggVars, outsideTheme>>

\* the click listener of the .theme-toggle button
toggleClick ==
    /\ toggleButton
    /\ themeCommit(toggleTheme(ThemeNow), [op |-> "click", arg |-> "", ctrl |-> FALSE],
                   pushToggle)
    /\ UNCHANGED <<themeEnv, themePhase, themeListening, toggleButton, themeDestroyed,
                   storeAtLoad>>
    /\ UNCHANGED <<eggVars, outsideTheme>>

\* ThemeManager.destroy(): removeEventListener is given this.handleKeydown,
\* which is undefined, so the keydown listeners stay; the button stays too
themeDestroy ==
    /\ themePhase = "ready"
    /\ themeDestroyed' = TRUE
    /\ themeCommit(applyTheme([ThemeNow EXCEPT !.dark = TRUE]),
                   [op |-> "destroy", arg |-> "", ctrl |-> FALSE], <<>>)
    /\ UNCHANGED <<themeEnv, themePhase, themeListening, toggleButton, storeAtLoad>>
    /\ rainbow' = FALSE
    /\ matrixCanvases' = deactivateMatrixMode(matrixCanvases)
    /\ eggsRegistered' = FALSE
    /\ konamiCode' = <<>>
    /\ lastEggOp' = "destroy"
    /\ UNCHANGED <<rainbowTimers, matrixIntervals, recentKeys, keyCount, konamiFired>>
    /\ UNCHANGED outsideTheme

\* the keydown listener of setupEasterEggs
konamiKeydown(keyCode) ==
    /\ themeListening
    /\ LET code == konamiShift(Append(konamiCode, keyCode))
           hit == toString(code) = toString(KonamiSequence)
       IN  /\ konamiCode' = code
           /\ konamiFired' = hit
           /\ IF hit
              THEN \* triggerKonamiEasterEgg()
                   /\ rainbowTimers < MaxEggTimers
                   /\ rainbow' = TRUE
                   /\ rainbowTimers' = rainbowTimers + 1
              ELSE UNCHANGED <<rainbow, rainbowTimers>>
    /\ recentKeys' = Tail(Append(recentKeys, keyCode))
    /\ keyCount' = IF keyCount < MaxKeyCount THEN keyCount + 1 ELSE keyCount
    /\ UNCHANGED <<eggsRegistered, matrixCanvases, matrixIntervals, lastEggOp>>
    /\ UNCHANGED <<themeVars, outsideTheme>>

\* the 10 s timer of triggerKonamiEasterEgg fires: deactivateRainbowMode()
rainbowTimerFires ==
    /\ rainbowTimers > 0
    /\ rainbowTimers' = rainbowTimers - 1
    /\ rainbow' = FALSE
    /\ UNCHANGED <<konamiCode, eggsRegistered, matrixCanvases, matrixIntervals, eggHist>>
    /\ UNCHANGED <<themeVars, outsideTheme>>

\* activateEasterEgg(name): activateRainbowMode(), or activateMatrixMode()
\* with startMatrixRain(canvas)
activateEasterEgg(name) ==
    /\ themePhase = "ready"
    /\ IF ~eggsRegistered
       THEN UNCHANGED <<rainbow, matrixCanvases, matrixIntervals, lastEggOp>>
       ELSE IF name = "rainbow"
       THEN rainbow' = TRUE /\ UNCHANGED <<matrixCanvases, matrixIntervals, lastEggOp>>
       ELSE /\ matrixCanvases < MaxMatrix
            /\ matrixIntervals < MaxMatrix
            /\ matrixCanvases' = matrixCanvases + 1
            /\ matrixIntervals' = matrixIntervals + 1
            /\ lastEggOp' = "activate"
            /\ UNCHANGED rainbow
    /\ UNCHANGED <<konamiCode, eggsRegistered, rainbowTimers, recentKeys, keyCount,
                   konamiFired>>
    /\ UNCHANGED <<themeVars, outsideTheme>>

\* deactivateEasterEgg(name): deactivateRainbowMode(), or deactivateMatrixMode()
deactivateEasterEgg(name) ==
    /\ themePhase = "ready"
    /\ IF ~eggsRegistered
       THEN UNCHANGED <<rainbow, matrixCanvases, lastEggOp>>
       ELSE IF name = "rainbow"
       THEN rainbow' = FALSE /\ UNCHANGED <<matrixCanvases, lastEggOp>>
       ELSE /\ matrixCanvases' = deactivateMatrixMode(matrixCanvases)
            /\ lastEggOp' = "deactivate"
            /\ UNCHANGED rainbow
    /\ UNCHANGED <<konamiCode, eggsRegistered, rainbowTimers, matrixIntervals, recentKeys,
                   keyCount, konamiFired>>
    /\ UNCHANGED <<themeVars, outsideTheme>>

\* the user presses one of the next keys: the keydown event reaches the listener
pressKey(keyCode) ==
    /\ keyCode \in NextKeys(recentKeys)
    /\ konamiKeydown(keyCode)

\* the keys of a live manager
KonamiNext ==
    \/ themeConstruct
    \/ \E keyCode \in KeyCodes : pressKey(keyCode)
    \/ rainbowTimerFires

\* the easter eggs called from the page, with the theme operations
EggNext ==
    \/ themeConstruct
    \/ \E name \in EggNames : activateEasterEgg(name)
    \/ \E name \in EggNames : deactivateEasterEgg(name)
    \/ toggleThemeCall
    \/ themeDestroy

\* the easter eggs before the manager is constructed
EggIdle ==
    /\ konamiCode = <<>>
    /\ eggsRegistered = FALSE
    /\ rainbow = FALSE
    /\ rainbowTimers = 0
    /\ matrixCanvases = 0
    /\ matrixIntervals = 0
    /\ recentKeys = [i \in 1..Len(KonamiSequence) |-> NoKey]
    /\ keyCount = 0
    /\ konamiFired = FALSE
    /\ lastEggOp = "none"

\* a page without navigation and with an empty store
KonamiInit ==
    /\ ThemeInitIn({"ok"})
    /\ hasNav = FALSE
    /\ store = EmptyStore
    /\ EggIdle

EggInit ==
    /\ ThemeInitIn({"ok"})
    /\ store \in {EmptyStore, StoreOf(Item("light"))}
    /\ EggIdle

(***************************************************************************)
(* The typewriter.                                                         *)
(***************************************************************************)
MutSubstringInclusive(str, end) ==
    SubSeq(str, 1, IF end + 1 > Len(str) THEN Len(str) ELSE end + 1)

\* str.substring(0, end)
substring(str, end) ==
    SubSeq(str, 1, IF end < 0 THEN 0 ELSE IF end > Len(str) THEN Len(str) ELSE end)

\* initTypewriterEffect() without and with a .hero-subtitle element
TypeInit ==
    /\ hasSubtitle \in BOOLEAN
    /\ textIndex = 0
    /\ charIndex = 0
    /\ isDeleting = FALSE
    /\ subtitleText = IF hasSubtitle THEN OriginalText ELSE <<>>
    /\ typeStarted = FALSE

\* the timer fires: type()
type ==
    /\ hasSubtitle
    /\ LET currentText == texts[textIndex + 1]
           c == IF isDeleting THEN charIndex - 1 ELSE charIndex + 1
       IN  /\ subtitleText' = substring(currentText, c)
           /\ charIndex' = c
           /\ IF ~isDeleting /\ c = Len(currentText)
              THEN isDeleting' = TRUE /\ UNCHANGED textIndex
              ELSE IF isDeleting /\ c = 0
              THEN isDeleting' = FALSE /\ textIndex' = (textIndex + 1) % Len(texts)
              ELSE UNCHANGED <<isDeleting, textIndex>>
    /\ typeStarted' = TRUE
    /\ UNCHANGED hasSubtitle
    /\ UNCHANGED outsideType

TypeNext == type

\* a page without .hero-subtitle
TypeIdle ==
    /\ hasSubtitle = FALSE
    /\ textIndex = 0
    /\ charIndex = 0
    /\ isDeleting = FALSE
    /\ subtitleText = <<>>
    /\ typeStarted = FALSE

(***************************************************************************)
(* PerformanceManager: pausing and resuming the animations.  The two       *)
(* methods are functions of a record p = [paused, property, state]:        *)
(* isAnimationsPaused, the custom property and the inline play states.     *)
(***************************************************************************)
PerfNow == [paused |-> isAnimationsPaused, property |-> playStateProperty,
            state |-> playState]

pauseAnimations(p) ==
    IF p.paused THEN p
    ELSE [paused |-> TRUE,
          property |-> "paused",
          state |-> [e \in Elements |-> IF hasAnimation[e] THEN "paused" ELSE p.state[e]]]

resumeAnimations(p) ==
    IF ~p.paused THEN p
    ELSE [paused |-> FALSE,
          property |-> "running",
          state |-> [e \in Elements |-> IF p.state[e] = "paused" THEN "running"
                                        ELSE p.state[e]]]

perfCommit(p) ==
    /\ isAnimationsPaused' = p.paused
    /\ playStateProperty' = p.property
    /\ playState' = p.state

\* the visibilitychange listener
visibilityChange ==
    /\ docHidden' = ~docHidden
    /\ perfCommit(IF docHidden' THEN pauseAnimations(PerfNow) ELSE resumeAnimations(PerfNow))
    /\ UNCHANGED hasAnimation
    /\ UNCHANGED outsidePerf

\* pauseAnimations() called on the manager
pauseAnimationsCall ==
    /\ perfCommit(pauseAnimations(PerfNow))
    /\ UNCHANGED <<hasAnimation, docHidden>>
    /\ UNCHANGED outsidePerf

\* resumeAnimations() called on the manager
resumeAnimationsCall ==
    /\ perfCommit(resumeAnimations(PerfNow))
    /\ UNCHANGED <<hasAnimation, docHidden>>
    /\ UNCHANGED outsidePerf

\* the beforeunload listener: cleanup()
cleanup ==
    /\ isAnimationsPaused' = FALSE
    /\ UNCHANGED <<hasAnimation, playState, playStateProperty, docHidden>>
    /\ UNCHANGED outsidePerf

\* an animation starts or ends on an element (a class or an inline animation
\* is added or removed)
animationChange(e) ==
    /\ hasAnimation' = [hasAnimation EXCEPT ![e] = ~@]
    /\ UNCHANGED <<playState, playStateProperty, docHidden, isAnimationsPaused>>
    /\ UNCHANGED outsidePerf

PerfInit ==
    /\ hasAnimation \in [Elements -> BOOLEAN]
    /\ playState = [e \in Elements |-> "unset"]
    /\ playStateProperty = "unset"
    /\ docHidden = FALSE
    /\ isAnimationsPaused = FALSE

PerfNext ==
    \/ visibilityChange
    \/ pauseAnimationsCall
    \/ resumeAnimationsCall
    \/ cleanup
    \/ \E e \in Elements : animationChange(e)

\* a page without animated elements, never hidden
PerfIdle ==
    /\ hasAnimation = [e \in Elements |-> FALSE]
    /\ playState = [e \in Elements |-> "unset"]
    /\ playStateProperty = "unset"
    /\ docHidden = FALSE
    /\ isAnimationsPaused = FALSE

RestIdle == TypeIdle /\ EggIdle /\ PerfIdle

ThemeNext ==
    \/ themeConstruct
    \/ toggleThemeCall
    \/ \E theme \in ThemeNames : setThemeCall(theme)
    \/ \E ctrlKey \in BOOLEAN, key \in Keys : keydown(ctrlKey, key)
    \/ toggleClick
    \/ themeDestroy

\* a page whose ThemeManager is not constructed, for the specifications of
\* other modules
ThemeIdle ==
    /\ storeMode = "ok"
    /\ hasNav = FALSE
    /\ store = EmptyStore
    /\ themePhase = "new"
    /\ themeListening = FALSE
    /\ toggleButton = FALSE
    /\ toggleIcon = "none"
    /\ isDarkTheme = TRUE
    /\ palette = "stylesheet"
    /\ themeDestroyed = FALSE
    /\ themeThrew = FALSE
    /\ storeAtLoad = EmptyStore
    /\ themeCall = NoThemeCall
    /\ toggleHist = <<>>

vars == <<formVars, animVars, pageVars, themeVars, typeVars, eggVars, perfVars>>

FormSpecInit == FormInit /\ AnimIdle /\ PageIdle /\ ThemeIdle /\ RestIdle
FormSpec == FormSpecInit /\ [][FormNext]_vars

ValidateSpecInit == ValidateInit /\ AnimIdle /\ PageIdle /\ ThemeIdle /\ RestIdle
ValidateSpec == ValidateSpecInit /\ [][ValidateNext]_vars

AnimSpecInit == AnimInit /\ FormIdle /\ PageIdle /\ ThemeIdle /\ RestIdle
AnimSpec == AnimSpecInit /\ [][AnimNext]_vars

ParallaxSpecInit == ParallaxInit /\ FormIdle /\ PageIdle /\ ThemeIdle /\ RestIdle
ParallaxSpec == ParallaxSpecInit /\ [][ParallaxNext]_vars

RegisterSpecInit == RegisterInit /\ FormIdle /\ PageIdle /\ ThemeIdle /\ RestIdle
RegisterSpec == RegisterSpecInit /\ [][RegisterNext]_vars

TypeSpecInit == TypeInit /\ FormIdle /\ AnimIdle /\ PageIdle /\ ThemeIdle /\ EggIdle /\ PerfIdle
TypeSpec == TypeSpecInit /\ [][TypeNext]_vars
PerfSpecInit == PerfInit /\ FormIdle /\ AnimIdle /\ PageIdle /\ ThemeIdle /\ TypeIdle /\ EggIdle
PerfSpec == PerfSpecInit /\ [][PerfNext]_vars
KonamiSpecInit == KonamiInit /\ FormIdle /\ AnimIdle /\ PageIdle /\ TypeIdle /\ PerfIdle
KonamiSpec == KonamiSpecInit /\ [][KonamiNext]_vars
EggSpecInit == EggInit /\ FormIdle /\ AnimIdle /\ PageIdle /\ TypeIdle /\ PerfIdle
EggSpec == EggSpecInit /\ [][EggNext]_vars

PageSpecInit == PageInit /\ FormIdle /\ ThemeIdle /\ RestIdle
NavSpecInit == NavInit /\ FormIdle /\ ThemeIdle /\ RestIdle
NavSpec == NavSpecInit /\ [][NavNext]_vars
\* a burst of scroll events ends, and a pending timer then fires
DebounceSpecInit == DebounceInit /\ FormIdle /\ ThemeIdle /\ RestIdle
DebounceSpec == DebounceSpecInit /\ [][DebounceNext]_vars /\ WF_vars(onScroll)
PageSpec == PageSpecInit /\ [][PageNext]_vars

\* the theme with a store that works
ThemeSpecInit == ThemeInitIn({"ok"}) /\ FormIdle /\ AnimIdle /\ PageIdle /\ RestIdle
ThemeSpec == ThemeSpecInit /\ [][ThemeNext]_vars

\* the theme with a store that may throw
StorageSpecInit == ThemeInitIn(StoreModes) /\ FormIdle /\ AnimIdle /\ PageIdle /\ RestIdle
StorageSpec == StorageSpecInit /\ [][ThemeNext]_vars

(***************************************************************************)
(* Properties of the form.                                                 *)
(***************************************************************************)
\* local@domain.tld: one '@' at position i, a dot at position j, the three
\* parts non-empty, and no whitespace or second '@' anywhere
HasEmailShape(t) ==
    \E i, j \in 1..Len(t) :
        /\ 1 < i /\ i + 1 < j /\ j < Len(t)
        /\ t[i] = "@" /\ t[j] = "."
        /\ \A k \in (1..Len(t)) \ {i} : t[k] # "@" /\ ~IsSpace(t[k])

\* an empty required field or a malformed email
InvalidValue(i, v) ==
    LET t == trim(v) IN
    \/ inRequired[i] /\ t = <<>>
    \/ inType[i] = "email" /\ t # <<>> /\ ~HasEmailShape(t)

\* the inline error messages created for input i that are in the document
OwnMessages(errs, i) ==
    {k \in 1..Len(errs[inParent[i]]) : errs[inParent[i]][k].owner = i}

\* C1: between submit events and timer completions at most one simulated
\* submission is in flight (and the flag says so); a submit event that
\* arrives while isSubmitting is true changes nothing.  The events of the
\* claim are a live manager's: destroy() is not among them.
C1_OneSubmissionInFlight ==
    [][/\ contactForm' => /\ submitTimers' <= 1
                          /\ isSubmitting' <=> submitTimers' = 1
       /\ isSubmitting /\ handleFormSubmission => UNCHANGED vars]_vars

C1_Witness == contactForm /\ isSubmitting /\ submitTimers = 1

\* C2: isSubmitting is set only by a submit whose tracked inputs all passed
\* validation, starting one timer and disabling the button; when a timer
\* fires the submission ends in success or failure with isSubmitting false
\* and the manager's button enabled, reading 'Send Message'.
C2_SubmissionLifecycle ==
    [][/\ ~isSubmitting /\ isSubmitting' =>
            /\ \A k \in 1..Len(formInputs) :
                    ~InvalidValue(formInputs[k], value[formInputs[k]])
            /\ submitTimers' = submitTimers + 1
            /\ submitButton => button'.disabled
       /\ submitTimers' < submitTimers =>
            /\ ~isSubmitting'
            /\ outcome' \in {"success", "failure"}
            /\ submitButton =>
                /\ ~button'.disabled
                /\ page.buttonText => button'.text = "Send Message"]_vars

C2_Witness ==
    /\ contactForm /\ ~isSubmitting /\ outcome = "success"
    /\ button.text = "Send Message" /\ ~button.disabled

\* C3 (as claimed): no submission ever ends in the failure branch.
C3_FailureUnreachable == outcome # "failure"

\* C4 (as claimed): a submit with an invalid input is rejected, leaves the
\* flag, the timers and the button alone, and every invalid input shows its
\* error (the class and a message of its own).
C4_InvalidSubmitRejected ==
    [][(/\ contactForm /\ ~isSubmitting /\ handleFormSubmission
        /\ \E i \in Inputs : InvalidValue(i, value[i]))
       => /\ ~isSubmitting'
          /\ submitTimers' = submitTimers
          /\ button' = button
          /\ \A i \in Inputs : InvalidValue(i, value[i]) =>
                errClass'[i] /\ OwnMessages(errors', i) # {}]_vars

\* C5: validateInput on an email input accepts exactly the values that,
\* trimmed, are empty on an optional field or have the shape
\* local@domain.tld; "a@b.co" passes, "a@b" fails, "" fails when required.
C5_EmailAccepted ==
    /\ \A i \in Inputs :
        (returned # NoCall /\ returned.input = i /\ inType[i] = "email") =>
            (returned.ok <=>
                \/ trim(value[i]) = <<>> /\ ~inRequired[i]
                \/ HasEmailShape(trim(value[i])))
    /\ returned # NoCall /\ inType[returned.input] = "email" =>
        /\ value[returned.input] = <<"a", "@", "b", ".", "c", "o">> => returned.ok
        /\ value[returned.input] = <<"a", "@", "b">> => ~returned.ok
        /\ value[returned.input] = <<>> /\ inRequired[returned.input] => ~returned.ok

C5_Witness ==
    /\ returned # NoCall /\ returned.input = 1 /\ returned.ok
    /\ inType[1] = "email" /\ inRequired[1]
    /\ value[1] = <<"a", "@", "b", ".", "c", "o">>

\* C6: validity is recomputed from scratch: right after validateInput(input)
\* (blur) the input has the error class and exactly one message of its own
\* iff its value is invalid, and none of either otherwise; a change of the
\* value (an input event, a form reset) removes the input's error; and at no
\* time does an input have two messages, or a message while its class is
\* off or its value is valid.
C6_NoStaleOrDuplicateError ==
    [][/\ \A i \in Inputs :
            /\ Blur(i) =>
                IF InvalidValue(i, value[i])
                THEN errClass'[i] /\ Cardinality(OwnMessages(errors', i)) = 1
                ELSE ~errClass'[i] /\ OwnMessages(errors', i) = {}
            /\ value'[i] # value[i] =>
                ~errClass'[i] /\ OwnMessages(errors', i) = {}
       /\ \A i \in Inputs :
            /\ Cardinality(OwnMessages(errors', i)) <= 1
            /\ OwnMessages(errors', i) # {} =>
                errClass'[i] /\ InvalidValue(i, value'[i])]_vars

C6_Witness ==
    \E i \in Inputs :
        /\ errClass[i] /\ Cardinality(OwnMessages(errors, i)) = 1
        /\ \E j \in Inputs : j # i /\ inParent[j] = inParent[i] /\ errClass[j]

(***************************************************************************)
(* Properties of the animations.                                           *)
(***************************************************************************)
\* the transform the markup attribute m calls for at offset y: the speed is
\* the number at the start of the attribute unless there is none or it is
\* zero, and then 0.1
ExpectedTransform(y, m) ==
    LET n == parseFloat(m.text)
        speed == IF m.present /\ ~n.nan /\ n.val # 0 THEN n.val ELSE Scale \div 10
    IN  [set |-> TRUE, ty |-> y * speed, rot |-> (y * Scale) \div 10]

\* C7: a fade-in element that is visible stays visible, whatever scroll
\* event, intersection callback, resize or teardown comes next.
C7_VisibleForever == [][\A e \in Fades : visible[e] => visible'[e]]_vars

C7_Witness ==
    \E e \in Fades : visible[e] /\ ~isVisible(e) /\ ~isIntersecting(e) /\ ~observer

\* C8: when the scroll check runs, every tracked element whose top is above
\* 80% of the viewport height is visible afterwards, an element not yet
\* visible whose top is at or below that line stays as it is, and a visible
\* element is not marked again (the check marks an element at most once).
C8_ScrollCheck ==
    [][handleScroll /\ ~isAnimating =>
        \A e \in Range(fadeElements) :
            /\ (docTop[e] - scrollY) * 10 < innerHeight * 8 => visible'[e]
            /\ ~visible[e] /\ (docTop[e] - scrollY) * 10 >= innerHeight * 8 =>
                    ~visible'[e] /\ marked'[e] = marked[e]
            /\ visible[e] => visible'[e] /\ marked'[e] = marked[e]
            /\ marked'[e] <= 1]_vars

C8_Witness ==
    /\ isAnimating
    /\ \E e, e2 \in Range(fadeElements) :
        /\ visible[e] /\ marked[e] = 1
        /\ ~visible[e2] /\ rectTop(e2) * 10 >= innerHeight * 8

\* C9 (as claimed): every handleScroll call leaves each decorative element's
\* transform reflecting the current scroll offset.
C9_EveryScrollUpdates ==
    [][handleScroll =>
        \A f \in Range(floatingElements) :
            transform'[f] = ExpectedTransform(scrollY, markupSpeed[f])]_vars

\* C9 (amended): a handleScroll call made while no animation-frame callback
\* is pending (isAnimating false) recomputes every decorative element's
\* transform from the current scroll offset, runs the fade-in check and sets
\* isAnimating; a call made while isAnimating is true changes nothing.
C9_ScrollUpdatesWhenIdle ==
    [][/\ handleScroll /\ ~isAnimating =>
            /\ \A f \in Range(floatingElements) :
                    transform'[f] = ExpectedTransform(scrollY, markupSpeed[f])
            /\ \A e \in Range(fadeElements) :
                    (docTop[e] - scrollY) * 10 < innerHeight * 8 => visible'[e]
            /\ isAnimating' /\ frames' = frames + 1
       /\ handleScroll /\ isAnimating =>
            UNCHANGED <<transform, visible, isAnimating, frames>>]_vars

C9_Witness ==
    /\ isAnimating /\ frames = 1 /\ scrollY = 900
    /\ floatingElements = AllFloats
    /\ \A f \in Floats : transform[f] = ExpectedTransform(900, markupSpeed[f])

\* the speed as the claim reads it: the attribute's numeric value, and 0.1
\* when the element has no attribute
ClaimedSpeed(m) == IF m.present THEN parseFloat(m.text).val ELSE Scale \div 10

\* C10 (as claimed): updateParallax sets the transform to translateY(scrollY *
\* speed) rotate(scrollY * 0.1), speed being the attribute's numeric value
\* (for an attribute that has one) and 0.1 without an attribute.
C10_ParallaxAsClaimed ==
    [][handleResize =>
        \A f \in Range(floatingElements) :
            (~markupSpeed[f].present \/ ~parseFloat(markupSpeed[f].text).nan) =>
                transform'[f] = [set |-> TRUE,
                                 ty |-> scrollY * ClaimedSpeed(markupSpeed[f]),
                                 rot |-> (scrollY * Scale) \div 10]]_vars

\* C10 (amended): updateParallax sets the transform to translateY(scrollY *
\* speed) rotate(scrollY * 0.1), speed being the number at the start of the
\* attribute when there is one and it is not zero, and 0.1 otherwise (no
\* attribute, empty or non-numeric text, zero); the transform depends on the
\* scroll offset and the attribute only.
C10_ParallaxTransform ==
    [][handleResize \/ (handleScroll /\ ~isAnimating) =>
        \A f \in Range(floatingElements) :
            transform'[f] = ExpectedTransform(scrollY, markupSpeed[f])]_vars

C10_Witness ==
    /\ scrollY = 300
    /\ markupSpeed[1] = Attr(<<"1", ".", "5">>)
    /\ transform[1] = [set |-> TRUE, ty |-> (300 * 15 * Scale) \div 10,
                       rot |-> 30 * Scale]
    /\ transform[2] = [set |-> TRUE, ty |-> 30 * Scale, rot |-> 30 * Scale]

(***************************************************************************)
(* Properties of the page.                                                 *)
(***************************************************************************)
\* a page with no progress bar and no fade-in, decorative or section elements
EmptyPage ==
    /\ ~hasProgress
    /\ fadeElements = <<>>
    /\ floatingElements = <<>>
    /\ sectionsOnPage = {}

\* C11: when the scroll listener runs on a page with a progress bar, the
\* width it writes is scrollY / (scrollHeight - innerHeight) * 100 percent,
\* in JavaScript's arithmetic; with document height 2000 and viewport 1000,
\* offset 0 gives "0%" and offset 500 gives "50%".
C11_ProgressWidth ==
    [][onScroll /\ progressBar =>
        /\ IF scrollHeight = innerHeight
           THEN barWidth'.kind = IF scrollY = 0 THEN "NaN" ELSE "Infinity"
           ELSE /\ barWidth'.kind = "number"
                /\ barWidth'.den > 0
                /\ barWidth'.num * (scrollHeight - innerHeight)
                        = scrollY * 100 * barWidth'.den
        /\ scrollHeight = 2000 /\ innerHeight = 1000 /\ scrollY = 0 =>
                barWidth' = [kind |-> "number", num |-> 0, den |-> 1]
        /\ scrollHeight = 2000 /\ innerHeight = 1000 /\ scrollY = 500 =>
                barWidth' = [kind |-> "number", num |-> 50, den |-> 1]]_vars

C11_Witness ==
    /\ scrollHeight = 2000 /\ innerHeight = 1000 /\ scrollY = 500
    /\ ~scrollPending
    /\ barWidth = [kind |-> "number", num |-> 50, den |-> 1]

\* C12 (as claimed): whatever the scroll offset and the geometry, short
\* pages included, the width written is a finite percentage from 0 to 100.
C12_WidthWithinRange ==
    \/ barWidth = NoWidth
    \/ /\ barWidth.kind = "number"
       /\ 0 <= barWidth.num
       /\ barWidth.num <= 100 * barWidth.den

\* C13 (as claimed): on a page without any of the elements, a scroll or
\* resize listener run raises no error and changes no module state.
C13_EmptyPageUntouched ==
    [][EmptyPage /\ (onScroll \/ onResize) =>
        /\ ~pageThrew'
        /\ UNCHANGED <<progressBar, barWidth, navVars, animRefs, datasetSpeed,
                       transform, visible, observed, marked, isAnimating>>]_vars

\* C13 (amended): on a page without any of the elements, a scroll or resize
\* listener run raises no error and changes no module state other than the
\* AnimationManager's throttle flag: a scroll run made while isAnimating is
\* false sets it and requests a frame, whose callback clears it.
C13_EmptyPageSkipped ==
    [][/\ EmptyPage /\ (onScroll \/ onResize) =>
            /\ ~pageThrew'
            /\ UNCHANGED <<progressBar, barWidth, navVars, animRefs, datasetSpeed,
                           transform, visible, observed, marked>>
       /\ EmptyPage /\ onResize => UNCHANGED <<isAnimating, frames>>
       /\ EmptyPage /\ onScroll =>
            /\ isAnimating'
            /\ frames' = IF isAnimating THEN frames ELSE frames + 1
       /\ EmptyPage /\ frameCallback => ~isAnimating']_vars

C13_Witness ==
    /\ EmptyPage /\ scrollY # 0 /\ ~scrollPending /\ ~resizePending
    /\ isAnimating /\ frames = 1 /\ ~pageThrew

(***************************************************************************)
(* Properties of the theme.                                                *)
(***************************************************************************)
\* C14 (as claimed): two toggles in a row restore the current theme, the
\* palette and the persisted value, from any state.
C14_DoubleToggleRestores ==
    Len(toggleHist) = 2 => Snapshot(ThemeNow) = toggleHist[1]

\* C14 (amended): two toggles in a row restore the current theme and the
\* palette, and leave the current theme's name persisted; the persisted
\* value is therefore restored exactly when the store held the current
\* theme's name before the first toggle.
C14_DoubleToggle ==
    Len(toggleHist) = 2 =>
        LET before == toggleHist[1]
            after == Snapshot(ThemeNow)
        IN  /\ after.theme = before.theme
            /\ after.palette = before.palette
            /\ after.saved = Item(after.theme)
            /\ before.saved = Item(before.theme) => after = before
            /\ before.saved # Item(before.theme) => after.saved # before.saved

C14_Witness ==
    /\ Len(toggleHist) = 2
    /\ toggleHist[1].saved = Item("light")
    /\ Snapshot(ThemeNow) = toggleHist[1]

\* C15: setTheme(name) with a name other than "dark" and "light" leaves the
\* current theme, the palette and the store as they were; with "dark" or
\* "light" all three become that name.
C15_SetTheme ==
    [][\A theme \in ThemeNames :
        setThemeCall(theme) =>
            IF theme \in {"dark", "light"}
            THEN /\ getCurrentTheme(isDarkTheme') = theme
                 /\ palette' = theme
                 /\ getItem(store', ThemeKey) = Item(theme)
            ELSE UNCHANGED <<isDarkTheme, palette, toggleIcon, store>>]_vars

C15_Witness ==
    /\ themeCall = [op |-> "setTheme", arg |-> "light", ctrl |-> FALSE]
    /\ storeAtLoad = StoreOf(Item("dark"))
    /\ ~isDarkTheme /\ palette = "light" /\ store = StoreOf(Item("light"))

\* C16 (as claimed): whenever an operation on the constructed manager
\* (toggleTheme, setTheme, Ctrl+D, a click, destroy) changes the current
\* theme, the value stored under the key is the current theme afterwards.
C16_WrittenOnEveryChange ==
    [][themePhase = "ready" /\ isDarkTheme' # isDarkTheme =>
        getItem(store', ThemeKey) = Item(getCurrentTheme(isDarkTheme'))]_vars

\* C16 (amended): whenever toggleTheme, setTheme, Ctrl+D or a click changes
\* the current theme, the value stored under the key is the current theme
\* afterwards; destroy() sets the theme and the palette back to dark and
\* does not write the store.
C16_WrittenOnChange ==
    [][/\ themePhase = "ready" /\ isDarkTheme' # isDarkTheme /\ ~themeDestroy =>
            getItem(store', ThemeKey) = Item(getCurrentTheme(isDarkTheme'))
       /\ themeDestroy => isDarkTheme' /\ palette' = "dark" /\ store' = store]_vars

C16_Witness ==
    /\ themeDestroyed /\ themeCall.op = "destroy"
    /\ isDarkTheme /\ getItem(store, ThemeKey) = Item("light")

\* C17: starting from an empty store, the store never holds a key other
\* than 'portfolio-theme', and the value under it is "dark" or "light".
C17_OnlyThemeKey ==
    storeAtLoad = EmptyStore =>
        /\ DOMAIN store \subseteq {ThemeKey}
        /\ \A k \in DOMAIN store : store[k] \in {"dark", "light"}

C17_Witness ==
    /\ storeAtLoad = EmptyStore
    /\ DOMAIN store = {ThemeKey} /\ store[ThemeKey] = "light"

\* C18 (as claimed): construction leaves the current theme equal to the
\* stored value when that is "dark" or "light" and dark in every other
\* case, and does not write the store.
C18_LoadedOrDefaultDark ==
    [][themeConstruct =>
        /\ store' = store
        /\ getCurrentTheme(isDarkTheme') =
                IF getItem(store, ThemeKey) \in {Item("dark"), Item("light")}
                THEN getItem(store, ThemeKey).text
                ELSE "dark"]_vars

\* C19 (as claimed): a store that throws never makes a ThemeManager call
\* end in an exception, and construction always leaves a usable manager.
C19_StorageFailureContained == ~themeThrew /\ themePhase # "failed"

\* C20 (as claimed): once destroy() has run, a keydown (Ctrl+D included) or
\* a click on the toggle button changes no state.
C20_NoHandlerAfterDestroy ==
    [][themeDestroyed /\ (toggleClick \/ \E c \in BOOLEAN, k \in Keys : keydown(c, k)) =>
        UNCHANGED <<isDarkTheme, palette, toggleIcon, store>>]_vars

(***************************************************************************)
(* Properties of the public animation methods and of the timers.           *)
(***************************************************************************)
\* C21 (as claimed): addFadeInElement(el) for an element without the fade-in
\* mark ends without an error, and afterwards el carries the mark, is in
\* the tracked list and is observed; for an element that carries the mark
\* it changes nothing.
C21_AddRegisters ==
    [][\A e \in Fades :
        addFadeInElement(e) =>
            IF fadeClass[e]
            THEN UNCHANGED animVars
            ELSE /\ ~animThrew'
                 /\ fadeClass'[e]
                 /\ e \in Range(fadeElements')
                 /\ e \in observed']_vars

\* C22 (as claimed): never more than one animation-frame callback of
\* handleScroll is pending, destroy() included in the interleavings.
C22_OneFramePending == frames <= 1

\* C24 (as claimed): while a submission is in flight the manager's submit
\* button is disabled.
C24_DisabledWhileSubmitting == isSubmitting /\ submitButton => button.disabled

\* C23: the scroll listener is debounced.  At most one of its timers is
\* pending; a scroll event leaves exactly one timer, started by that event;
\* the progress bar, handleScroll and the active section are updated only by
\* a timer that no scroll event followed, the three in source order, and no
\* timer is left after the run; and every burst of scroll events is
\* eventually followed by a run.
C23_Debounced ==
    /\ [](Len(scrollTimers) <= 1)
    /\ [][scrollY' # scrollY => scrollTimers' = <<FALSE>>]_vars
    /\ [][(\/ barWidth' # barWidth
           \/ scrollCalls' # scrollCalls
           \/ currentSection' # currentSection
           \/ runLog' # runLog
           \/ burst' < burst)
          => /\ scrollTimers = <<FALSE>> /\ scrollTimers' = <<>>
             /\ burst > 0 /\ burst' = 0
             /\ scrollY' = scrollY
             /\ scrollCalls' # scrollCalls
             /\ runLog' = RunOrder]_vars
    /\ ((burst > 0) ~> (burst = 0 /\ runLog = RunOrder))

\* a run happened, and in the burst after it a second event replaced the timer
C23_Witness ==
    /\ runLog = RunOrder
    /\ burst = 2
    /\ scrollTimers = <<FALSE>>

\* C27 (as claimed): while a 1000 ms timer of scrollToSection is pending the
\* scrolling flag is set.
C27_FlagUntilTimer == navTimers > 0 => navScrolling

\* C28: the nav links carrying the active mark are exactly the links whose
\* data-section is getCurrentSection().
C28_ActiveIsCurrent == activeLinks = {l \in NavLinks : l = currentSection}

\* scrollToSection and the scroll listener both moved the active link
C28_Witness ==
    /\ currentSection = "about"
    /\ activeLinks = {"about"}
    /\ ~navScrolling
    /\ navTimers = 0
    /\ scrollY = 0
    /\ runLog = RunOrder

\* C25: once type() has run, the subtitle shows the first charIndex
\* characters of texts[textIndex], with 0 <= charIndex <= its length;
\* deletion starts only in a step that completes the text, and textIndex
\* changes only to the next index (cyclically), in a step that brings
\* charIndex to 0.
C25_TypewriterPrefix ==
    /\ [](/\ textIndex \in 0..(Len(texts) - 1)
          /\ charIndex \in 0..Len(texts[textIndex + 1])
          /\ typeStarted => subtitleText = SubSeq(texts[textIndex + 1], 1, charIndex))
    /\ [][(~isDeleting /\ isDeleting')
            => /\ charIndex' = Len(texts[textIndex + 1])
               /\ subtitleText' = texts[textIndex + 1]]_vars
    /\ [][textIndex' # textIndex
            => /\ charIndex' = 0
               /\ isDeleting /\ ~isDeleting'
               /\ textIndex' = (textIndex + 1) % Len(texts)]_vars

\* the fourth text is being deleted
C25_Witness ==
    /\ typeStarted
    /\ textIndex = 3
    /\ isDeleting
    /\ charIndex = 5
    /\ subtitleText = <<"P", "r", "o", "b", "l">>

\* C26: the last keydown triggered the Konami easter egg exactly when the
\* ten most recent key codes are the sequence, and the buffer never holds
\* more than ten codes.
C26_KonamiExact ==
    /\ Len(konamiCode) <= 10
    /\ konamiFired <=> recentKeys = KonamiSequence

\* the sequence was completed after at least one other key
C26_Witness ==
    /\ konamiFired
    /\ rainbow
    /\ keyCount = 11
    /\ Len(konamiCode) = 10

\* C29 (as claimed): whenever isAnimationsPaused is false, no element has
\* the play state 'paused'.
C29_FlagAgreesWithPage ==
    ~isAnimationsPaused => \A e \in Elements : playState[e] # "paused"

\* C30 (as claimed): after deactivateEasterEgg('matrix') or destroy() no
\* matrix canvas is in the page and no drawing interval is scheduled.
C30_MatrixGone ==
    lastEggOp \in {"deactivate", "destroy"} => matrixCanvases = 0 /\ matrixIntervals = 0

====
